---- MODULE Spec2Model ----
(***************************************************************************)
(* A model of two parts of the Mesa driver stack:                          *)
(*   - the VC4 blit dispatcher (src/gallium/drivers/vc4/vc4_blit.c):       *)
(*     vc4_blit tries the tile path, the region-copy path and the render   *)
(*     fallback in turn;                                                   *)
(*   - the state tracker's sampler-view cache                              *)
(*     (src/mesa/state_tracker/st_atom_texture.c).                         *)
(* Each part has its own specification (SpecBlit, SpecTex); the variables  *)
(* of the other part keep their initial values.                            *)
(***************************************************************************)
EXTENDS Integers, Sequences, FiniteSets, TLC

VARIABLES vc4,        \* the driver context (struct vc4_context), as a record
          entry,      \* the context as it was when vc4_blit was entered
          blit_info,  \* the caller's request (const struct pipe_blit_info *)
          info,       \* vc4_blit's private copy of the request
          log,        \* the calls and diagnostics of the current vc4_blit, in order
          jobs,       \* the jobs handed to the hardware, as the context described them
          phase       \* "idle" before the call, "returned" after it

blitVars == <<vc4, entry, blit_info, info, log, jobs, phase>>

VARIABLES st,            \* the state tracker context (struct st_context), as a record
          stObj,         \* the texture object bound to the unit, with its resource pt
          samp,          \* the sampler object of the unit
          glsl_version,  \* the version of the shader that samples the unit
          sv,            \* the texture object's cache slot for this context (*sv)
          changed,       \* what was set since the unit was last resolved
          last           \* the last call of update_single_texture: what it found,
                         \* what it did and the view it handed back

texVars == <<st, stObj, samp, glsl_version, sv, changed, last>>

VARIABLES call,          \* a call of one of the swizzle functions: its name and arguments
          result         \* [ret |-> what the call returned], NULL before it returns

swzVars == <<call, result>>

VARIABLES Unit,          \* ctx->Texture.Unit[texUnit]._Current: the texture object of a unit
          obj_views,     \* stObj->sampler_views of each unit's texture: ids of views
          heap,          \* the sampler views that were created: content, reference count
          state,         \* st->state.sampler_views, num_sampler_views per context and stage
          cso,           \* the views the last bind call of a context and stage passed
          refresh        \* the last call of update_textures: arguments and what it did

stageVars == <<Unit, obj_views, heap, state, cso, refresh>>

VARIABLES ctx,           \* the GL context as the stage callbacks read it: the vertex
                         \* stage's MaxTextureImageUnits, the stages with a current program
          dirty,         \* st->dirty: the mesa and st flags set since the last validation
          validated      \* the last validation: the flags it found, the update callbacks
                         \* it called, the stages update_textures ran for

atomVars == <<ctx, dirty, validated>>

vars == <<blitVars, texVars, swzVars, stageVars, atomVars>>

(***************************************************************************)
(* Small helpers.                                                          *)
(***************************************************************************)
Max(a, b) == IF a >= b THEN a ELSE b

Min(a, b) == IF a <= b THEN a ELSE b

RECURSIVE Pow2(_)
Pow2(n) == IF n = 0 THEN 1 ELSE 2 * Pow2(n - 1)

\* a & b on non-negative integers
RECURSIVE BitAnd(_, _)
BitAnd(a, b) ==
    IF a = 0 \/ b = 0 THEN 0
    ELSE 2 * BitAnd(a \div 2, b \div 2) + (IF a % 2 = 1 /\ b % 2 = 1 THEN 1 ELSE 0)

\* a & ~b on non-negative integers
RECURSIVE BitClear(_, _)
BitClear(a, b) ==
    IF a = 0 THEN 0
    ELSE 2 * BitClear(a \div 2, b \div 2) + (IF a % 2 = 1 /\ b % 2 = 0 THEN 1 ELSE 0)

\* align(value, alignment), alignment a power of two
align(value, alignment) == ((value + alignment - 1) \div alignment) * alignment

\* u_minify(value, levels) = MAX2(1, value >> levels)
u_minify(value, levels) == Max(1, value \div Pow2(levels))

(***************************************************************************)
(* Program constants.                                                      *)
(***************************************************************************)
PIPE_MASK_RGBA == 15

PIPE_MASK_S == 32

VC4_TILING_FORMAT_T == 1

\* the null pointer, as a record so that it compares with surfaces and views
NULL == [null |-> TRUE]

ColorFormat == "B8G8R8A8_UNORM"

DepthStencilFormat == "S8_UINT_Z24_UNORM"

util_format_is_depth_or_stencil(format) == format = DepthStencilFormat

(***************************************************************************)
(* The inputs of the blit model.                                           *)
(***************************************************************************)
\* the mip levels a request can name
BlitMaxLevel == 1

Levels == 0 .. BlitMaxLevel

\* format and sample count of the resources blitted between
ResourceKinds ==
    {<<ColorFormat, 0>>, <<ColorFormat, 4>>, <<DepthStencilFormat, 0>>}

Widths == {100, 128}

\* T tiling and linear storage
Tilings == {VC4_TILING_FORMAT_T, 0}

Strides == {256, 512}

\* colour only, stencil only, and colour with depth (bit 16) and stencil
Masks == {PIPE_MASK_RGBA, PIPE_MASK_S, PIPE_MASK_RGBA + 16 + PIPE_MASK_S}

\* a resource (struct vc4_resource): square, 4 bytes per pixel, every mip
\* level stored with the same tiling and stride
Resource(name, format, samples, width0, tiling, stride) ==
    [name |-> name, format |-> format, nr_samples |-> samples,
     width0 |-> width0, height0 |-> width0, cpp |-> 4,
     slices |-> [l \in Levels |-> [tiling |-> tiling, stride |-> stride]]]

\* a 100 pixel wide linear texture: level 0 has its own width, the smaller
\* levels are stored in the areas of the next power of two, 128 (the case
\* of the comment at lines 91-99)
NpotSource ==
    [name |-> "src", format |-> ColorFormat, nr_samples |-> 0,
     width0 |-> 100, height0 |-> 100, cpp |-> 4,
     slices |-> [l \in Levels |->
                    [tiling |-> 0,
                     stride |-> IF l = 0 THEN align(100 * 4, 16)
                                ELSE u_minify(128, l) * 4]]]

SrcResources ==
    {Resource("src", k[1], k[2], 128, t, sd) :
        k \in ResourceKinds, t \in Tilings, sd \in Strides}
    \cup {NpotSource}

DstResources ==
    {Resource("dst", k[1], k[2], w, VC4_TILING_FORMAT_T, 512) :
        k \in ResourceKinds, w \in Widths}

Box(x, y, w, h) == [x |-> x, y |-> y, width |-> w, height |-> h]

\* destination boxes: offsets on and off the 64 and 32 pixel grids, sizes
\* that are a whole tile or end at the edge of a 100 pixel surface
DstBoxes ==
    {Box(x, yh[1], w, yh[2]) :
        x \in {0, 32, 64}, w \in {36, 64}, yh \in {<<0, 64>>, <<64, 36>>}}

\* the source box: the destination box, or one shifted against it
SrcBoxes(b) == {b, [b EXCEPT !.x = b.x + 32]}

NoRequest == [mask |-> 0]

NoSurface == NULL

\* a surface of the framebuffer that was bound before the blit
FbResource(format, samples) ==
    Resource("fb", format, samples, 128, VC4_TILING_FORMAT_T, 512)

FbSurface(format, samples) ==
    [texture |-> FbResource(format, samples), format |-> format, level |-> 0,
     width |-> 128, height |-> 128]

\* the tile size the framebuffer binding gives the context
TileSize(msaa) == IF msaa THEN 32 ELSE 64

\* The context as vc4_blit can find it: nothing drawn yet, or a draw to a
\* single-sampled or to a multisampled framebuffer pending.
Context(drawing, msaa) ==
    [msaa |-> msaa,
     tile_width |-> TileSize(msaa),
     tile_height |-> TileSize(msaa),
     needs_flush |-> drawing,
     color_read |-> NoSurface,
     color_write |-> IF drawing /\ ~msaa THEN FbSurface(ColorFormat, 0) ELSE NoSurface,
     msaa_color_write |-> IF drawing /\ msaa THEN FbSurface(ColorFormat, 4) ELSE NoSurface,
     zs_read |-> IF drawing THEN FbSurface(DepthStencilFormat, IF msaa THEN 4 ELSE 0)
                 ELSE NoSurface,
     zs_write |-> IF drawing /\ ~msaa THEN FbSurface(DepthStencilFormat, 0) ELSE NoSurface,
     msaa_zs_write |-> IF drawing /\ msaa THEN FbSurface(DepthStencilFormat, 4)
                       ELSE NoSurface,
     draw_min_x |-> 0, draw_min_y |-> 0,
     draw_max_x |-> IF drawing THEN 128 ELSE 0,
     draw_max_y |-> IF drawing THEN 128 ELSE 0,
     draw_width |-> IF drawing THEN 128 ELSE 0,
     draw_height |-> IF drawing THEN 128 ELSE 0]

EntryContexts == {Context(FALSE, FALSE), Context(TRUE, TRUE)}

(***************************************************************************)
(* vc4_blit.c                                                              *)
(***************************************************************************)
vc4_get_blit_surface(prsc, level) ==
    [texture |-> prsc, format |-> prsc.format, level |-> level,
     width |-> u_minify(prsc.width0, level),
     height |-> u_minify(prsc.height0, level)]

is_tile_unaligned(size, tile_size) == BitAnd(size, tile_size - 1) # 0

\* lines 57-60: the blit's own multisample setting and tile size
BlitMsaa(inf) ==
    inf.src.resource.nr_samples > 1 \/ inf.dst.resource.nr_samples > 1

BlitTileSize(inf) == IF BlitMsaa(inf) THEN 32 ELSE 64

\* lines 62-63
DstIsDepthStencil(inf) == util_format_is_depth_or_stencil(inf.dst.resource.format)

\* a slip: the mask is tested for being empty, not for its colour bits
NoColorInMask_AnyBit(inf) == inf.mask = 0

\* lines 68-69
NoColorInMask(inf) == BitAnd(inf.mask, PIPE_MASK_RGBA) = 0

\* lines 71-76
BoxesDiffer(inf) ==
    \/ inf.dst.box.x # inf.src.box.x
    \/ inf.dst.box.y # inf.src.box.y
    \/ inf.dst.box.width # inf.src.box.width
    \/ inf.dst.box.height # inf.src.box.height

\* lines 78-81
DstSurfaceWidth(inf) == u_minify(inf.dst.resource.width0, inf.dst.level)

DstSurfaceHeight(inf) == u_minify(inf.dst.resource.height0, inf.dst.level)

\* a slip: a box that ends at the surface's edge is not let through
DstBoxUnaligned_NoEdge(inf) ==
    LET tile_width == IF inf.src.resource.nr_samples > 1
                         \/ inf.dst.resource.nr_samples > 1 THEN 32 ELSE 64
    IN  \/ is_tile_unaligned(inf.dst.box.x, tile_width)
        \/ is_tile_unaligned(inf.dst.box.y, tile_width)
        \/ is_tile_unaligned(inf.dst.box.width, tile_width)
        \/ is_tile_unaligned(inf.dst.box.height, tile_width)

\* lines 82-89
DstBoxUnaligned(inf) ==
    LET tile_width == BlitTileSize(inf)
        tile_height == BlitTileSize(inf)
    IN  \/ is_tile_unaligned(inf.dst.box.x, tile_width)
        \/ is_tile_unaligned(inf.dst.box.y, tile_height)
        \/ /\ is_tile_unaligned(inf.dst.box.width, tile_width)
           /\ inf.dst.box.x + inf.dst.box.width # DstSurfaceWidth(inf)
        \/ /\ is_tile_unaligned(inf.dst.box.height, tile_height)
           /\ inf.dst.box.y + inf.dst.box.height # DstSurfaceHeight(inf)

\* a slip: the stride is taken from the source surface's width
ComputedStride_FromSource(inf) ==
    LET rsc == inf.src.resource
        src_surface_width == u_minify(rsc.width0, inf.src.level)
    IN  IF rsc.nr_samples > 1
        THEN align(src_surface_width, 32) * 4 * rsc.cpp
        ELSE IF rsc.slices[inf.src.level].tiling = VC4_TILING_FORMAT_T
             THEN align(src_surface_width * rsc.cpp, 128)
             ELSE align(src_surface_width * rsc.cpp, 16)

\* lines 100-109: the stride the hardware will assume, from the destination
\* surface's width
ComputedStride(inf) ==
    LET rsc == inf.src.resource
        dst_surface_width == DstSurfaceWidth(inf)
    IN  IF rsc.nr_samples > 1
        THEN align(dst_surface_width, 32) * 4 * rsc.cpp
        ELSE IF rsc.slices[inf.src.level].tiling = VC4_TILING_FORMAT_T
             THEN align(dst_surface_width * rsc.cpp, 128)
             ELSE align(dst_surface_width * rsc.cpp, 16)

\* lines 111-112
StrideMismatch(inf) ==
    ComputedStride(inf) # inf.src.resource.slices[inf.src.level].stride

\* lines 114-115
FormatsDiffer(inf) == inf.dst.resource.format # inf.src.resource.format

\* lines 62-115: vc4_tile_blit returns false before touching anything
TileBlitRejects(inf) ==
    \/ DstIsDepthStencil(inf)
    \/ inf.scissor_enable
    \/ NoColorInMask(inf)
    \/ BoxesDiffer(inf)
    \/ DstBoxUnaligned(inf)
    \/ StrideMismatch(inf)
    \/ FormatsDiffer(inf)

\* what a job submission sees of the context
JobOf(c) ==
    [color_read |-> c.color_read, color_write |-> c.color_write,
     msaa_color_write |-> c.msaa_color_write, zs_read |-> c.zs_read,
     zs_write |-> c.zs_write, msaa_zs_write |-> c.msaa_zs_write,
     draw_min_x |-> c.draw_min_x, draw_min_y |-> c.draw_min_y,
     draw_max_x |-> c.draw_max_x, draw_max_y |-> c.draw_max_y,
     tile_width |-> c.tile_width, tile_height |-> c.tile_height,
     msaa |-> c.msaa]

\* vc4_job_submit: the pending work goes to the hardware
vc4_job_submit(c) == [c EXCEPT !.needs_flush = FALSE]

\* vc4_flush: submits the pending work, if there is any
vc4_flush(c) == IF c.needs_flush THEN vc4_job_submit(c) ELSE c

FlushedJobs(c) == IF c.needs_flush THEN <<JobOf(c)>> ELSE <<>>

\* a slip: a multisampled destination goes to the normal colour-write slot
BindBlitSurfaces_OneSlot(c, inf) ==
    [c EXCEPT !.color_read = vc4_get_blit_surface(inf.src.resource, inf.src.level),
              !.color_write = vc4_get_blit_surface(inf.dst.resource, inf.dst.level),
              !.msaa_color_write = NULL,
              !.zs_read = NULL,
              !.zs_write = NULL,
              !.msaa_zs_write = NULL,
              !.draw_min_x = inf.dst.box.x,
              !.draw_min_y = inf.dst.box.y,
              !.draw_max_x = inf.dst.box.x + inf.dst.box.width,
              !.draw_max_y = inf.dst.box.y + inf.dst.box.height,
              !.draw_width = u_minify(inf.dst.resource.width0, inf.dst.level),
              !.draw_height = u_minify(inf.dst.resource.height0, inf.dst.level)]

\* a slip: the depth-stencil slots are left as the caller had them
BindBlitSurfaces_KeepDepth(c, inf) ==
    LET dst_surf == vc4_get_blit_surface(inf.dst.resource, inf.dst.level)
        src_surf == vc4_get_blit_surface(inf.src.resource, inf.src.level)
    IN  [c EXCEPT !.color_read = src_surf,
                  !.color_write = IF dst_surf.texture.nr_samples > 1
                                  THEN NULL ELSE dst_surf,
                  !.msaa_color_write = IF dst_surf.texture.nr_samples > 1
                                       THEN dst_surf ELSE NULL,
                  !.draw_min_x = inf.dst.box.x,
                  !.draw_min_y = inf.dst.box.y,
                  !.draw_max_x = inf.dst.box.x + inf.dst.box.width,
                  !.draw_max_y = inf.dst.box.y + inf.dst.box.height,
                  !.draw_width = dst_surf.width,
                  !.draw_height = dst_surf.height]

\* lines 129-150: the surfaces and the draw bounds of the blit
BindBlitSurfaces(c, inf) ==
    LET dst_surf == vc4_get_blit_surface(inf.dst.resource, inf.dst.level)
        src_surf == vc4_get_blit_surface(inf.src.resource, inf.src.level)
    IN  [c EXCEPT !.color_read = src_surf,
                  !.color_write = IF dst_surf.texture.nr_samples > 1
                                  THEN NULL ELSE dst_surf,
                  !.msaa_color_write = IF dst_surf.texture.nr_samples > 1
                                       THEN dst_surf ELSE NULL,
                  !.zs_read = NULL,
                  !.zs_write = NULL,
                  !.msaa_zs_write = NULL,
                  !.draw_min_x = inf.dst.box.x,
                  !.draw_min_y = inf.dst.box.y,
                  !.draw_max_x = inf.dst.box.x + inf.dst.box.width,
                  !.draw_max_y = inf.dst.box.y + inf.dst.box.height,
                  !.draw_width = dst_surf.width,
                  !.draw_height = dst_surf.height]

\* lines 152-155
SetBlitTileState(c, inf) ==
    [c EXCEPT !.tile_width = BlitTileSize(inf),
              !.tile_height = BlitTileSize(inf),
              !.msaa = BlitMsaa(inf),
              !.needs_flush = TRUE]

\* a slip: the tile height is not put back
RestoreTileState_NoHeight(c, old) ==
    [c EXCEPT !.msaa = old.msaa, !.tile_width = old.tile_width]

\* lines 159-161, with the values saved at lines 54-56
RestoreTileState(c, old) ==
    [c EXCEPT !.msaa = old.msaa,
              !.tile_width = old.tile_width,
              !.tile_height = old.tile_height]

\* a slip: the surfaces are bound before the pending work is flushed
vc4_tile_blit_BindBeforeFlush(c, inf) ==
    IF TileBlitRejects(inf)
    THEN [ret |-> FALSE, vc4 |-> c, log |-> <<"vc4_tile_blit">>, jobs |-> <<>>]
    ELSE LET bound == SetBlitTileState(BindBlitSurfaces(c, inf), inf)
             flushed == vc4_flush(bound)
             submitted == vc4_job_submit(flushed)
         IN  [ret |-> TRUE,
              vc4 |-> RestoreTileState(submitted, c),
              log |-> <<"vc4_tile_blit", "create_surface", "create_surface",
                        "bind_surfaces", "vc4_flush", "vc4_job_submit",
                        "restore_tile_state">>,
              jobs |-> FlushedJobs(bound) \o <<JobOf(bound)>>]

\* a slip: the pending work is flushed before the formats are compared
vc4_tile_blit_FlushEarly(c, inf) ==
    IF \/ DstIsDepthStencil(inf)
       \/ inf.scissor_enable
       \/ NoColorInMask(inf)
       \/ BoxesDiffer(inf)
       \/ DstBoxUnaligned(inf)
       \/ StrideMismatch(inf)
    THEN [ret |-> FALSE, vc4 |-> c, log |-> <<"vc4_tile_blit">>, jobs |-> <<>>]
    ELSE IF FormatsDiffer(inf)
    THEN [ret |-> FALSE, vc4 |-> vc4_flush(c),
          log |-> <<"vc4_tile_blit", "vc4_flush">>, jobs |-> FlushedJobs(c)]
    ELSE LET flushed == vc4_flush(c)
             bound == SetBlitTileState(BindBlitSurfaces(flushed, inf), inf)
             submitted == vc4_job_submit(bound)
         IN  [ret |-> TRUE,
              vc4 |-> RestoreTileState(submitted, c),
              log |-> <<"vc4_tile_blit", "vc4_flush", "create_surface",
                        "create_surface", "bind_surfaces", "vc4_job_submit",
                        "restore_tile_state">>,
              jobs |-> FlushedJobs(c) \o <<JobOf(bound)>>]

\* vc4_tile_blit: its return value, the context it leaves, what it called
\* and what it submitted
vc4_tile_blit(c, inf) ==
    IF TileBlitRejects(inf)
    THEN [ret |-> FALSE, vc4 |-> c, log |-> <<"vc4_tile_blit">>, jobs |-> <<>>]
    ELSE LET flushed == vc4_flush(c)
             bound == SetBlitTileState(BindBlitSurfaces(flushed, inf), inf)
             submitted == vc4_job_submit(bound)
         IN  [ret |-> TRUE,
              vc4 |-> RestoreTileState(submitted, c),
              log |-> <<"vc4_tile_blit", "vc4_flush", "create_surface",
                        "create_surface", "bind_surfaces", "vc4_job_submit",
                        "restore_tile_state">>,
              jobs |-> FlushedJobs(c) \o <<JobOf(bound)>>]

\* util_try_blit_via_copy_region: the collaborator copies or declines
util_try_blit_via_copy_region(inf, copy_ok) ==
    [ret |-> copy_ok,
     log |-> IF copy_ok
             THEN <<"util_try_blit_via_copy_region", "resource_copy_region">>
             ELSE <<"util_try_blit_via_copy_region">>]

\* a slip: the depth bit goes with the stencil bit
DropStencil_WithDepth(inf) ==
    IF BitAnd(inf.mask, PIPE_MASK_S) # 0
    THEN [info |-> [inf EXCEPT !.mask = BitClear(inf.mask, PIPE_MASK_S + 16)],
          log |-> <<"cannot blit stencil, skipping">>]
    ELSE [info |-> inf, log |-> <<>>]

\* lines 219-222
DropStencil(inf) ==
    IF BitAnd(inf.mask, PIPE_MASK_S) # 0
    THEN [info |-> [inf EXCEPT !.mask = BitClear(inf.mask, PIPE_MASK_S)],
          log |-> <<"cannot blit stencil, skipping">>]
    ELSE [info |-> inf, log |-> <<>>]

\* a slip: the unsupported case prints its diagnostic and goes on
vc4_render_blit_NoReturn(c, inf, supported) ==
    [ret |-> TRUE,
     log |-> (IF supported THEN <<"vc4_render_blit">>
              ELSE <<"vc4_render_blit", "blit unsupported">>)
             \o <<"util_blitter_save_state", "util_blitter_blit">>]

\* lines 169-202: supported is util_blitter_is_blit_supported's answer
vc4_render_blit(c, inf, supported) ==
    IF ~supported
    THEN [ret |-> FALSE, log |-> <<"vc4_render_blit", "blit unsupported">>]
    ELSE [ret |-> TRUE,
          log |-> <<"vc4_render_blit", "util_blitter_save_state", "util_blitter_blit">>]

\* a slip: no return after the tile path has done the copy
vc4_blit_result_FallThrough(c, request, copy_ok, supported) ==
    LET tile == vc4_tile_blit(c, request)
        copy == util_try_blit_via_copy_region(request, copy_ok)
        drop == DropStencil(request)
        render == vc4_render_blit(c, drop.info, supported)
    IN  IF copy.ret
        THEN [vc4 |-> tile.vc4, info |-> request, log |-> tile.log \o copy.log,
              jobs |-> tile.jobs]
        ELSE [vc4 |-> tile.vc4, info |-> drop.info,
              log |-> tile.log \o copy.log \o drop.log \o render.log,
              jobs |-> tile.jobs]

\* lines 207-225
vc4_blit_result(c, request, copy_ok, supported) ==
    LET tile == vc4_tile_blit(c, request)
        copy == util_try_blit_via_copy_region(request, copy_ok)
        drop == DropStencil(request)
        render == vc4_render_blit(c, drop.info, supported)
    IN  IF tile.ret
        THEN [vc4 |-> tile.vc4, info |-> request, log |-> tile.log, jobs |-> tile.jobs]
        ELSE IF copy.ret
        THEN [vc4 |-> tile.vc4, info |-> request, log |-> tile.log \o copy.log,
              jobs |-> tile.jobs]
        ELSE [vc4 |-> tile.vc4, info |-> drop.info,
              log |-> tile.log \o copy.log \o drop.log \o render.log,
              jobs |-> tile.jobs]

\* no call of a swizzle function under way
SwizzleAtRest ==
    /\ call = NULL
    /\ result = NULL

\* no flag set, nothing validated
AtomsAtRest ==
    /\ ctx = NULL
    /\ dirty = NULL
    /\ validated = NULL

\* no texture bound to a unit, no stage refreshed
StageAtRest ==
    /\ Unit = NULL
    /\ obj_views = NULL
    /\ heap = NULL
    /\ state = NULL
    /\ cso = NULL
    /\ refresh = NULL

\* the sampler-view part while the blit part runs: no texture bound, no view
TexAtRest ==
    /\ st = NULL
    /\ stObj = NULL
    /\ samp = NULL
    /\ glsl_version = 0
    /\ sv = NULL
    /\ changed = "none"
    /\ last = NULL

vc4_blit(request, copy_ok, supported) ==
    /\ phase = "idle"
    /\ LET r == vc4_blit_result(vc4, request, copy_ok, supported)
       IN  /\ vc4' = r.vc4
           /\ info' = r.info
           /\ log' = r.log
           /\ jobs' = r.jobs
    /\ entry' = vc4
    /\ blit_info' = request
    /\ phase' = "returned"
    /\ UNCHANGED <<texVars, swzVars, stageVars, atomVars>>

InitBlit ==
    /\ vc4 \in EntryContexts
    /\ entry = vc4
    /\ blit_info = NoRequest
    /\ info = NoRequest
    /\ log = <<>>
    /\ jobs = <<>>
    /\ phase = "idle"
    /\ TexAtRest
    /\ SwizzleAtRest
    /\ StageAtRest
    /\ AtomsAtRest

NextBlit ==
    /\ phase = "idle"
    /\ \E sr \in SrcResources, dr \in DstResources, sl \in Levels, dl \in Levels,
          db \in DstBoxes, m \in Masks, sc \in BOOLEAN, copy_ok \in BOOLEAN,
          supported \in BOOLEAN :
           \E sb \in SrcBoxes(db) :
               vc4_blit([src |-> [resource |-> sr, level |-> sl, box |-> sb],
                         dst |-> [resource |-> dr, level |-> dl, box |-> db],
                         mask |-> m, scissor_enable |-> sc],
                        copy_ok, supported)

SpecBlit == InitBlit /\ [][NextBlit]_vars

(***************************************************************************)
(* Properties of the blit dispatcher.                                      *)
(***************************************************************************)
Logged(e) == \E i \in 1 .. Len(log) : log[i] = e

\* the place of an event of the log (0 when it is not there)
Place(e) == IF Logged(e) THEN CHOOSE i \in 1 .. Len(log) : log[i] = e ELSE 0

Returned == phase = "returned"

\* the events by which one of the three paths performs the copy
CopyEvents == {"vc4_job_submit", "resource_copy_region", "util_blitter_blit"}

TileDeclined == Logged("vc4_tile_blit") /\ ~Logged("vc4_job_submit")

CopyRegionDeclined ==
    Logged("util_try_blit_via_copy_region") /\ ~Logged("resource_copy_region")

\* C1: vc4_blit tries the tile path first, the region-copy path only when the
\* tile path declined, the render fallback only when both declined, in that
\* order, and at most one of the three paths performs the copy.
C1_StrategyOrder ==
    Returned =>
        /\ Place("vc4_tile_blit") = 1
        /\ Logged("util_try_blit_via_copy_region") =>
               /\ TileDeclined
               /\ Place("util_try_blit_via_copy_region") = 2
        /\ Logged("vc4_render_blit") =>
               /\ TileDeclined
               /\ CopyRegionDeclined
               /\ Place("util_try_blit_via_copy_region") < Place("vc4_render_blit")
        /\ Cardinality({e \in CopyEvents : Logged(e)}) <= 1
        /\ \A i, j \in 1 .. Len(log) :
               (log[i] \in CopyEvents /\ log[j] \in CopyEvents) => i = j

\* a blit that went through all three paths and was copied by the last
C1_Witness ==
    /\ Returned
    /\ TileDeclined
    /\ CopyRegionDeclined
    /\ Logged("util_blitter_blit")

\* the tile grid of a request, and the request's box on it, stated with
\* remainders
GridOf(inf) ==
    IF inf.src.resource.nr_samples > 1 \/ inf.dst.resource.nr_samples > 1
    THEN 32 ELSE 64

OnGridOrEdge(inf) ==
    LET g == GridOf(inf)
        b == inf.dst.box
        w == u_minify(inf.dst.resource.width0, inf.dst.level)
        h == u_minify(inf.dst.resource.height0, inf.dst.level)
    IN  /\ b.x % g = 0
        /\ b.y % g = 0
        /\ (b.x + b.width) % g = 0 \/ b.x + b.width = w
        /\ (b.y + b.height) % g = 0 \/ b.y + b.height = h

\* the stride of the source level as the hardware will assume it, from the
\* destination surface's width
AssumedStride(inf) ==
    LET w == u_minify(inf.dst.resource.width0, inf.dst.level)
        cpp == inf.src.resource.cpp
        RoundUp(v, a) == IF v % a = 0 THEN v ELSE (v + a) - (v % a)
    IN  IF inf.src.resource.nr_samples > 1 THEN RoundUp(w, 32) * 4 * cpp
        ELSE IF inf.src.resource.slices[inf.src.level].tiling = VC4_TILING_FORMAT_T
        THEN RoundUp(w * cpp, 128)
        ELSE RoundUp(w * cpp, 16)

\* what the claim C2 asks of a request
C2_Asked(inf) ==
    /\ ~inf.scissor_enable
    /\ inf.src.resource.format = inf.dst.resource.format
    /\ inf.src.box = inf.dst.box
    /\ OnGridOrEdge(inf)

\* C2 as stated: every non-scissored, same-format, non-scaling, aligned
\* request is handled by the tile path.
C2_AsStated == (Returned /\ C2_Asked(blit_info)) => Logged("vc4_job_submit")

\* C2, amended: such a request is handled by the tile path when, in
\* addition, the destination is not depth/stencil, the mask has a colour
\* channel and the stride assumed from the destination width is the stored
\* stride of the source level.
C2_TilePathChosen ==
    ( /\ Returned
      /\ C2_Asked(blit_info)
      /\ blit_info.dst.resource.format # DepthStencilFormat
      /\ blit_info.mask % 16 # 0
      /\ AssumedStride(blit_info)
            = blit_info.src.resource.slices[blit_info.src.level].stride )
    => /\ Logged("vc4_job_submit")
       /\ ~Logged("util_try_blit_via_copy_region")
       /\ Len(jobs) >= 1

\* a tile blit of a box that is off the grid on its right and bottom sides
\* and ends at the surface's edge
C2_Witness ==
    /\ Returned
    /\ C2_Asked(blit_info)
    /\ Logged("vc4_job_submit")
    /\ blit_info.dst.box.width % GridOf(blit_info) # 0
    /\ blit_info.dst.box.height % GridOf(blit_info) # 0

\* a request that breaks one of the constraints C3 names
C3_Breaks(inf) ==
    \/ inf.scissor_enable
    \/ inf.src.resource.format # inf.dst.resource.format
    \/ ~OnGridOrEdge(inf)
    \/ inf.src.box # inf.dst.box
    \/ inf.mask % 16 = 0

\* C3: a request that breaks a tile-path constraint is never handled by the
\* tile path: vc4_tile_blit returns false, having touched nothing, and
\* vc4_blit goes on to the region-copy path.
C3_FallsThrough ==
    (Returned /\ C3_Breaks(blit_info)) =>
        /\ TileDeclined
        /\ jobs = <<>>
        /\ ~Logged("vc4_flush")
        /\ Len(log) >= 2
        /\ log[2] = "util_try_blit_via_copy_region"

\* a stencil-only request, otherwise fit for the tile path, that fell through
C3_Witness ==
    /\ Returned
    /\ blit_info.mask = PIPE_MASK_S
    /\ C2_Asked(blit_info)
    /\ blit_info.dst.resource.format # DepthStencilFormat
    /\ TileDeclined
    /\ Logged("util_try_blit_via_copy_region")

\* C4: after a blit handled by the tile path, tile_width, tile_height and
\* msaa of the context are what they were before the call.
C4_TileStateRestored ==
    (Returned /\ Logged("vc4_job_submit")) =>
        /\ vc4.tile_width = entry.tile_width
        /\ vc4.tile_height = entry.tile_height
        /\ vc4.msaa = entry.msaa

\* a tile blit that ran with another tile size and multisample setting than
\* the context had
C4_Witness ==
    /\ Returned
    /\ Logged("vc4_job_submit")
    /\ jobs[Len(jobs)].msaa # entry.msaa
    /\ jobs[Len(jobs)].tile_width # entry.tile_width

SurfaceSlots(c) ==
    <<c.color_read, c.color_write, c.msaa_color_write, c.zs_read, c.zs_write,
      c.msaa_zs_write>>

\* C5 as stated: after a blit handled by the tile path the bound surfaces are
\* those bound before the call.
C5_AsStated ==
    (Returned /\ Logged("vc4_job_submit")) => SurfaceSlots(vc4) = SurfaceSlots(entry)

\* C5, amended: only the tile size and the multisample flag are put back;
\* the surfaces stay as the blit bound them: the source as colour read, the
\* destination in the colour-write slot its sample count selects, the other
\* colour-write slot and the depth-stencil slots empty.
C5_SurfacesStayBound ==
    (Returned /\ Logged("vc4_job_submit")) =>
        LET src_surf == [texture |-> blit_info.src.resource,
                         format |-> blit_info.src.resource.format,
                         level |-> blit_info.src.level,
                         width |-> u_minify(blit_info.src.resource.width0,
                                            blit_info.src.level),
                         height |-> u_minify(blit_info.src.resource.height0,
                                             blit_info.src.level)]
            dst_surf == [texture |-> blit_info.dst.resource,
                         format |-> blit_info.dst.resource.format,
                         level |-> blit_info.dst.level,
                         width |-> u_minify(blit_info.dst.resource.width0,
                                            blit_info.dst.level),
                         height |-> u_minify(blit_info.dst.resource.height0,
                                             blit_info.dst.level)]
            multisampled == blit_info.dst.resource.nr_samples > 1
        IN  /\ vc4.color_read = src_surf
            /\ vc4.color_write = IF multisampled THEN NULL ELSE dst_surf
            /\ vc4.msaa_color_write = IF multisampled THEN dst_surf ELSE NULL
            /\ vc4.zs_read = NULL
            /\ vc4.zs_write = NULL
            /\ vc4.msaa_zs_write = NULL
            /\ vc4.tile_width = entry.tile_width
            /\ vc4.tile_height = entry.tile_height
            /\ vc4.msaa = entry.msaa

\* a tile blit to a multisampled destination, entered with a framebuffer's
\* surfaces bound
C5_Witness ==
    /\ Returned
    /\ Logged("vc4_job_submit")
    /\ blit_info.dst.resource.nr_samples > 1
    /\ entry.zs_read # NULL
    /\ vc4.zs_read = NULL

\* C6: when the tile path and the region-copy path declined and the blitter
\* reports the request unsupported, vc4_blit returns without a copy: nothing
\* is saved, nothing drawn, nothing submitted, the context is as it was.
C6_SilentDrop ==
    Logged("blit unsupported") =>
        /\ Returned
        /\ TileDeclined
        /\ CopyRegionDeclined
        /\ \A e \in CopyEvents : ~Logged(e)
        /\ ~Logged("util_blitter_save_state")
        /\ log[Len(log)] = "blit unsupported"
        /\ jobs = <<>>
        /\ vc4 = entry

\* an unsupported request of a stencil mask: the stencil bit was dropped and
\* then the request itself
C6_Witness ==
    /\ Returned
    /\ Logged("blit unsupported")
    /\ Logged("cannot blit stencil, skipping")

\* C15: the render fallback never gets the stencil bit: it is cleared from
\* the dispatcher's own copy of the request, the other bits and fields as
\* the caller gave them, before vc4_render_blit is called; the tile path and
\* the region-copy path run with the caller's mask; the caller's request is
\* not modified.
C15_StencilDroppedForRenderOnly ==
    Returned =>
        LET stencil == (blit_info.mask \div PIPE_MASK_S) % 2 = 1
        IN  /\ Logged("vc4_render_blit") =>
                   /\ (info.mask \div PIPE_MASK_S) % 2 = 0
                   /\ info.mask = IF stencil THEN blit_info.mask - PIPE_MASK_S
                                  ELSE blit_info.mask
                   /\ [info EXCEPT !.mask = blit_info.mask] = blit_info
                   /\ stencil <=> Logged("cannot blit stencil, skipping")
                   /\ stencil => Place("cannot blit stencil, skipping")
                                     < Place("vc4_render_blit")
            /\ ~Logged("vc4_render_blit") =>
                   /\ info = blit_info
                   /\ ~Logged("cannot blit stencil, skipping")
            /\ Place("vc4_tile_blit") = 1
            /\ Logged("util_try_blit_via_copy_region") =>
                   ~Logged("cannot blit stencil, skipping")
                   \/ Place("util_try_blit_via_copy_region")
                          < Place("cannot blit stencil, skipping")

\* a request for colour, depth and stencil that reaches the render fallback
C15_Witness ==
    /\ Returned
    /\ Logged("util_blitter_blit")
    /\ blit_info.mask = PIPE_MASK_RGBA + 16 + PIPE_MASK_S
    /\ info.mask = PIPE_MASK_RGBA + 16

\* C22: in the tile path the pending work is flushed first (a job submitted
\* by the flush is the one of the context as it was on entry), then the
\* surfaces are created and bound and the draw bounds and the tile size set
\* (the blit's job carries them), then the job is submitted, then the tile
\* size and the multisample flag are put back; a request the tile path
\* rejects is not flushed for, gets no surface and submits nothing.
C22_TilePathOrder ==
    Returned =>
        /\ Logged("vc4_job_submit") =>
               /\ Place("vc4_tile_blit") < Place("vc4_flush")
               /\ Place("vc4_flush") < Place("create_surface")
               /\ Place("create_surface") < Place("bind_surfaces")
               /\ Place("bind_surfaces") < Place("vc4_job_submit")
               /\ Place("vc4_job_submit") < Place("restore_tile_state")
               /\ Len(jobs) = IF entry.needs_flush THEN 2 ELSE 1
               /\ entry.needs_flush => jobs[1] = JobOf(entry)
               /\ LET job == jobs[Len(jobs)]
                  IN  /\ job.color_read # NULL
                      /\ job.color_read.texture = blit_info.src.resource
                      /\ job.color_read.level = blit_info.src.level
                      /\ job.draw_min_x = blit_info.dst.box.x
                      /\ job.draw_min_y = blit_info.dst.box.y
                      /\ job.draw_max_x = blit_info.dst.box.x + blit_info.dst.box.width
                      /\ job.draw_max_y = blit_info.dst.box.y + blit_info.dst.box.height
                      /\ job.tile_width = GridOf(blit_info)
                      /\ job.tile_height = GridOf(blit_info)
                      /\ job.msaa = (GridOf(blit_info) = 32)
               /\ vc4.tile_width = entry.tile_width
               /\ vc4.tile_height = entry.tile_height
               /\ vc4.msaa = entry.msaa
               /\ ~vc4.needs_flush
        /\ TileDeclined =>
               /\ ~Logged("vc4_flush")
               /\ ~Logged("create_surface")
               /\ ~Logged("bind_surfaces")
               /\ ~Logged("restore_tile_state")
               /\ jobs = <<>>
               /\ vc4.needs_flush = entry.needs_flush

\* a tile blit entered with work pending and another tile size: the flush
\* submitted the pending job, the blit its own
C22_Witness ==
    /\ Returned
    /\ Logged("vc4_job_submit")
    /\ entry.needs_flush
    /\ Len(jobs) = 2
    /\ jobs[1].color_read # jobs[2].color_read
    /\ jobs[2].tile_width # entry.tile_width

\* C23: the job the tile path submits sees the source surface (the source
\* resource at the source level) as colour read, the destination surface in
\* exactly one colour-write slot, the multisample one when the destination is
\* multisampled and the normal one otherwise, the other colour-write slot
\* empty, and the three depth-stencil slots empty.
C23_BoundForSubmission ==
    (Returned /\ Logged("vc4_job_submit")) =>
        LET job == jobs[Len(jobs)]
            multisampled == blit_info.dst.resource.nr_samples > 1
            written == IF multisampled THEN job.msaa_color_write
                       ELSE job.color_write
            empty == IF multisampled THEN job.color_write
                     ELSE job.msaa_color_write
        IN  /\ job.color_read # NULL
            /\ job.color_read.texture = blit_info.src.resource
            /\ job.color_read.level = blit_info.src.level
            /\ job.color_read.format = blit_info.src.resource.format
            /\ written # NULL
            /\ written.texture = blit_info.dst.resource
            /\ written.level = blit_info.dst.level
            /\ written.format = blit_info.dst.resource.format
            /\ empty = NULL
            /\ Cardinality({slot \in {"color_write", "msaa_color_write"} :
                               job[slot] # NULL}) = 1
            /\ job.zs_read = NULL
            /\ job.zs_write = NULL
            /\ job.msaa_zs_write = NULL

\* a tile blit to a single-sampled destination, entered with depth-stencil
\* surfaces and the multisample colour-write slot bound
C23_Witness ==
    /\ Returned
    /\ Logged("vc4_job_submit")
    /\ blit_info.dst.resource.nr_samples <= 1
    /\ entry.msaa_zs_write # NULL
    /\ entry.msaa_color_write # NULL
    /\ jobs[Len(jobs)].color_write # NULL
    /\ jobs[Len(jobs)].msaa_color_write = NULL
    /\ jobs[Len(jobs)].msaa_zs_write = NULL

\* the stride of the source level as its own width gives it
SourceWidthStride(inf) ==
    LET w == u_minify(inf.src.resource.width0, inf.src.level)
        cpp == inf.src.resource.cpp
        RoundUp(v, a) == IF v % a = 0 THEN v ELSE (v + a) - (v % a)
    IN  IF inf.src.resource.nr_samples > 1 THEN RoundUp(w, 32) * 4 * cpp
        ELSE IF inf.src.resource.slices[inf.src.level].tiling = VC4_TILING_FORMAT_T
        THEN RoundUp(w * cpp, 128)
        ELSE RoundUp(w * cpp, 16)

StoredStride(inf) == inf.src.resource.slices[inf.src.level].stride

C25_RejectedLeavesContext ==
    (Returned /\ TileDeclined) =>
        /\ SurfaceSlots(vc4) = SurfaceSlots(entry)
        /\ vc4.draw_min_x = entry.draw_min_x
        /\ vc4.draw_min_y = entry.draw_min_y
        /\ vc4.draw_max_x = entry.draw_max_x
        /\ vc4.draw_max_y = entry.draw_max_y
        /\ vc4.draw_width = entry.draw_width
        /\ vc4.draw_height = entry.draw_height
        /\ vc4.tile_width = entry.tile_width
        /\ vc4.tile_height = entry.tile_height
        /\ vc4.msaa = entry.msaa
        /\ vc4.needs_flush = entry.needs_flush
        /\ vc4 = entry
        /\ jobs = <<>>
        /\ log[1] = "vc4_tile_blit"
        /\ Len(log) >= 2 => log[2] = "util_try_blit_via_copy_region"
        /\ \A e \in {"vc4_flush", "create_surface", "bind_surfaces",
                     "vc4_job_submit", "restore_tile_state"} : ~Logged(e)

\* a request between a depth-stencil source and a colour destination, fit
\* for the tile path but for its formats, made while a draw is pending on a
\* framebuffer with another tile size
C25_Witness ==
    /\ Returned
    /\ TileDeclined
    /\ entry.needs_flush
    /\ entry.msaa_color_write # NULL
    /\ entry.tile_width # GridOf(blit_info)
    /\ blit_info.src.resource.format # blit_info.dst.resource.format
    /\ C2_Asked([blit_info EXCEPT !.src.resource.format
                                      = blit_info.dst.resource.format])
    /\ blit_info.mask % 16 # 0
    /\ blit_info.dst.resource.format # DepthStencilFormat
    /\ AssumedStride(blit_info) = StoredStride(blit_info)

(***************************************************************************)
(* st_atom_texture.c: swizzles                                             *)
(***************************************************************************)
SWIZZLE_X == 0

SWIZZLE_Y == 1

SWIZZLE_Z == 2

SWIZZLE_W == 3

SWIZZLE_ZERO == 4

SWIZZLE_ONE == 5

\* a swizzle packs four 3-bit terms
MAKE_SWIZZLE4(a, b, c, d) == a + 8 * b + 64 * c + 512 * d

GET_SWZ(swz, idx) ==
    CASE idx = 0 -> swz % 8
      [] idx = 1 -> (swz \div 8) % 8
      [] idx = 2 -> (swz \div 64) % 8
      [] OTHER -> (swz \div 512) % 8

SWIZZLE_XYZW == MAKE_SWIZZLE4(SWIZZLE_X, SWIZZLE_Y, SWIZZLE_Z, SWIZZLE_W)

SWIZZLE_XXXX == MAKE_SWIZZLE4(SWIZZLE_X, SWIZZLE_X, SWIZZLE_X, SWIZZLE_X)

\* a slip: the constant terms are taken from swizzle2 like the channels
swizzle_term_NoConstants(swizzle1, swizzle2, i) ==
    LET s == GET_SWZ(swizzle1, i)
    IN  IF s \in {SWIZZLE_X, SWIZZLE_Y, SWIZZLE_Z, SWIZZLE_W}
        THEN GET_SWZ(swizzle2, s)
        ELSE GET_SWZ(swizzle2, i)

\* lines 62-81: one term of swizzle1(swizzle2)
swizzle_term(swizzle1, swizzle2, i) ==
    LET s == GET_SWZ(swizzle1, i)
    IN  CASE s \in {SWIZZLE_X, SWIZZLE_Y, SWIZZLE_Z, SWIZZLE_W} -> GET_SWZ(swizzle2, s)
          [] s = SWIZZLE_ZERO -> SWIZZLE_ZERO
          [] s = SWIZZLE_ONE -> SWIZZLE_ONE
          [] OTHER -> SWIZZLE_X

swizzle_swizzle(swizzle1, swizzle2) ==
    MAKE_SWIZZLE4(swizzle_term(swizzle1, swizzle2, 0),
                  swizzle_term(swizzle1, swizzle2, 1),
                  swizzle_term(swizzle1, swizzle2, 2),
                  swizzle_term(swizzle1, swizzle2, 3))

(***************************************************************************)
(* The format service, for the formats of the model.                       *)
(***************************************************************************)
SRGBFormat == "B8G8R8A8_SRGB"

StencilOnlyFormat == "X24S8_UINT"

BufferFormat == "R32_FLOAT"

BufferResourceFormat == "R8_UNORM"

util_format_has_alpha(format) == format \in {ColorFormat, SRGBFormat}

util_format_get_nr_components(format) ==
    CASE format \in {ColorFormat, SRGBFormat, "B8G8R8X8_UNORM"} -> 4
      [] format = DepthStencilFormat -> 2
      [] OTHER -> 1

util_format_is_depth_and_stencil(format) == format = DepthStencilFormat

util_format_stencil_only(format) ==
    IF format = DepthStencilFormat THEN StencilOnlyFormat ELSE format

util_format_linear(format) == IF format = SRGBFormat THEN ColorFormat ELSE format

\* bytes of one block of the format; every format of the model has 32-bit
\* blocks of one pixel, but for the buffer resource's own byte format
BlockBytes(format) == IF format = BufferResourceFormat THEN 1 ELSE 4

st_mesa_format_to_pipe_format(mesa_format) ==
    IF mesa_format = "MESA_FORMAT_R_FLOAT32" THEN BufferFormat ELSE "NONE"

gl_target_to_pipe(target) ==
    CASE target = "GL_TEXTURE_2D" -> "PIPE_TEXTURE_2D"
      [] target = "GL_TEXTURE_2D_ARRAY" -> "PIPE_TEXTURE_2D_ARRAY"
      [] target = "GL_TEXTURE_BUFFER" -> "PIPE_BUFFER"
      [] OTHER -> "PIPE_TEXTURE_2D"

\* the base format of the texture's base image, GL_NONE when it has none (a
\* buffer texture)
mesa_texture_base_format(obj) == obj._BaseFormat

mesa_is_gles3(s) == s.API = "API_OPENGLES2" /\ s.Version >= 30

(***************************************************************************)
(* st_atom_texture.c: the derived descriptor                               *)
(***************************************************************************)
\* a slip: the stored format's alpha is judged by its number of channels
compute_texture_format_swizzle_ByChannels(baseFormat, depthMode, actualFormat, version) ==
    CASE baseFormat = "GL_RGB" ->
            IF util_format_get_nr_components(actualFormat) > 3
            THEN MAKE_SWIZZLE4(SWIZZLE_X, SWIZZLE_Y, SWIZZLE_Z, SWIZZLE_ONE)
            ELSE SWIZZLE_XYZW
      [] baseFormat = "GL_LUMINANCE" ->
            IF util_format_get_nr_components(actualFormat) > 1
            THEN MAKE_SWIZZLE4(SWIZZLE_X, SWIZZLE_X, SWIZZLE_X, SWIZZLE_ONE)
            ELSE SWIZZLE_XYZW
      [] baseFormat = "GL_INTENSITY" ->
            IF util_format_get_nr_components(actualFormat) > 1
            THEN SWIZZLE_XXXX
            ELSE SWIZZLE_XYZW
      [] OTHER -> SWIZZLE_XYZW

\* a slip: version 130 itself is taken for an older one
compute_texture_format_swizzle_After130(baseFormat, depthMode, actualFormat, version) ==
    CASE baseFormat \notin {"GL_STENCIL_INDEX", "GL_DEPTH_STENCIL", "GL_DEPTH_COMPONENT"} ->
            SWIZZLE_XYZW
      [] depthMode = "GL_LUMINANCE" ->
            MAKE_SWIZZLE4(SWIZZLE_X, SWIZZLE_X, SWIZZLE_X, SWIZZLE_ONE)
      [] depthMode = "GL_INTENSITY" -> SWIZZLE_XXXX
      [] depthMode = "GL_ALPHA" ->
            IF version > 130
            THEN SWIZZLE_XXXX
            ELSE MAKE_SWIZZLE4(SWIZZLE_ZERO, SWIZZLE_ZERO, SWIZZLE_ZERO, SWIZZLE_X)
      [] OTHER -> MAKE_SWIZZLE4(SWIZZLE_X, SWIZZLE_ZERO, SWIZZLE_ZERO, SWIZZLE_ONE)

\* lines 105-191
compute_texture_format_swizzle(baseFormat, depthMode, actualFormat, version) ==
    CASE baseFormat = "GL_RGBA" -> SWIZZLE_XYZW
      [] baseFormat = "GL_RGB" ->
            IF util_format_has_alpha(actualFormat)
            THEN MAKE_SWIZZLE4(SWIZZLE_X, SWIZZLE_Y, SWIZZLE_Z, SWIZZLE_ONE)
            ELSE SWIZZLE_XYZW
      [] baseFormat = "GL_RG" ->
            IF util_format_get_nr_components(actualFormat) > 2
            THEN MAKE_SWIZZLE4(SWIZZLE_X, SWIZZLE_Y, SWIZZLE_ZERO, SWIZZLE_ONE)
            ELSE SWIZZLE_XYZW
      [] baseFormat = "GL_RED" ->
            IF util_format_get_nr_components(actualFormat) > 1
            THEN MAKE_SWIZZLE4(SWIZZLE_X, SWIZZLE_ZERO, SWIZZLE_ZERO, SWIZZLE_ONE)
            ELSE SWIZZLE_XYZW
      [] baseFormat = "GL_ALPHA" ->
            IF util_format_get_nr_components(actualFormat) > 1
            THEN MAKE_SWIZZLE4(SWIZZLE_ZERO, SWIZZLE_ZERO, SWIZZLE_ZERO, SWIZZLE_W)
            ELSE SWIZZLE_XYZW
      [] baseFormat = "GL_LUMINANCE" ->
            IF util_format_get_nr_components(actualFormat) > 1
            THEN MAKE_SWIZZLE4(SWIZZLE_X, SWIZZLE_X, SWIZZLE_X, SWIZZLE_ONE)
            ELSE SWIZZLE_XYZW
      [] baseFormat = "GL_LUMINANCE_ALPHA" ->
            IF util_format_get_nr_components(actualFormat) > 2
            THEN MAKE_SWIZZLE4(SWIZZLE_X, SWIZZLE_X, SWIZZLE_X, SWIZZLE_W)
            ELSE SWIZZLE_XYZW
      [] baseFormat = "GL_INTENSITY" ->
            IF util_format_get_nr_components(actualFormat) > 1
            THEN SWIZZLE_XXXX
            ELSE SWIZZLE_XYZW
      [] baseFormat \in {"GL_STENCIL_INDEX", "GL_DEPTH_STENCIL", "GL_DEPTH_COMPONENT"} ->
            CASE depthMode = "GL_LUMINANCE" ->
                    MAKE_SWIZZLE4(SWIZZLE_X, SWIZZLE_X, SWIZZLE_X, SWIZZLE_ONE)
              [] depthMode = "GL_INTENSITY" ->
                    MAKE_SWIZZLE4(SWIZZLE_X, SWIZZLE_X, SWIZZLE_X, SWIZZLE_X)
              [] depthMode = "GL_ALPHA" ->
                    IF version # 0 /\ version >= 130
                    THEN SWIZZLE_XXXX
                    ELSE MAKE_SWIZZLE4(SWIZZLE_ZERO, SWIZZLE_ZERO, SWIZZLE_ZERO, SWIZZLE_X)
              [] depthMode = "GL_RED" ->
                    MAKE_SWIZZLE4(SWIZZLE_X, SWIZZLE_ZERO, SWIZZLE_ZERO, SWIZZLE_ONE)
              [] OTHER -> SWIZZLE_XYZW
      [] OTHER -> SWIZZLE_XYZW

\* lines 194-227
get_texture_format_swizzle(s, obj, version) ==
    LET baseFormat == mesa_texture_base_format(obj)
        depth_mode ==
            IF /\ mesa_is_gles3(s)
               /\ util_format_is_depth_or_stencil(obj.pt.format)
               /\ obj.InternalFormat \notin
                      {"GL_DEPTH_COMPONENT", "GL_DEPTH_STENCIL", "GL_STENCIL_INDEX"}
            THEN "GL_RED"
            ELSE obj.DepthMode
        tex_swizzle ==
            IF baseFormat # "GL_NONE"
            THEN compute_texture_format_swizzle(baseFormat, depth_mode,
                                                obj.pt.format, version)
            ELSE SWIZZLE_XYZW
    IN  swizzle_swizzle(obj._Swizzle, tex_swizzle)

\* a slip: the alpha term is not compared
check_sampler_swizzle_NoAlpha(s, obj, view, version) ==
    LET swizzle == get_texture_format_swizzle(s, obj, version)
    IN  \/ view.swizzle_r # GET_SWZ(swizzle, 0)
        \/ view.swizzle_g # GET_SWZ(swizzle, 1)
        \/ view.swizzle_b # GET_SWZ(swizzle, 2)

\* lines 236-247
check_sampler_swizzle(s, obj, view, version) ==
    LET swizzle == get_texture_format_swizzle(s, obj, version)
    IN  \/ view.swizzle_r # GET_SWZ(swizzle, 0)
        \/ view.swizzle_g # GET_SWZ(swizzle, 1)
        \/ view.swizzle_b # GET_SWZ(swizzle, 2)
        \/ view.swizzle_a # GET_SWZ(swizzle, 3)

\* lines 250-257
last_level(obj) ==
    LET ret == Min(obj.MinLevel + obj._MaxLevel, obj.pt.last_level)
    IN  IF obj.Immutable
        THEN Min(ret, obj.MinLevel + obj.NumLevels - 1)
        ELSE ret

\* lines 259-265
last_layer(obj) ==
    IF obj.Immutable /\ obj.pt.array_size > 1
    THEN Min(obj.MinLayer + obj.NumLayers - 1, obj.pt.array_size - 1)
    ELSE obj.pt.array_size - 1

(***************************************************************************)
(* pipe_sampler_view.u is a union: u.tex (first_layer:16, last_layer:16,   *)
(* first_level:8, last_level:8) and u.buf (first_element, last_element)    *)
(* share two 32-bit words.  The order in which the compiler allocates bit  *)
(* fields within a word is the build's choice (st.msb_first).              *)
(***************************************************************************)
u_tex_words(layer0, layer1, level0, level1, msb_first) ==
    IF msb_first
    THEN [w0 |-> (layer0 % 65536) * 65536 + (layer1 % 65536),
          w1 |-> (level0 % 256) * 16777216 + (level1 % 256) * 65536]
    ELSE [w0 |-> (layer0 % 65536) + (layer1 % 65536) * 65536,
          w1 |-> (level0 % 256) + (level1 % 256) * 256]

u_buf_words(first_element, last_element) ==
    [w0 |-> first_element, w1 |-> last_element]

\* the four u.tex fields as read from the two words
u_tex(u, msb_first) ==
    IF msb_first
    THEN [first_layer |-> u.w0 \div 65536,
          last_layer |-> u.w0 % 65536,
          first_level |-> u.w1 \div 16777216,
          last_level |-> (u.w1 \div 65536) % 256]
    ELSE [first_layer |-> u.w0 % 65536,
          last_layer |-> u.w0 \div 65536,
          first_level |-> u.w1 % 256,
          last_level |-> (u.w1 \div 256) % 256]

\* the two u.buf fields
u_buf(u) == [first_element |-> u.w0, last_element |-> u.w1]

(***************************************************************************)
(* st_atom_texture.c: building and caching the view                        *)
(***************************************************************************)
\* u_sampler_view_default_template: the whole resource, identity swizzle
u_sampler_view_default_template(texture, format, msb_first) ==
    [context |-> NULL, texture |-> texture, format |-> format,
     target |-> texture.target,
     swizzle_r |-> SWIZZLE_X, swizzle_g |-> SWIZZLE_Y,
     swizzle_b |-> SWIZZLE_Z, swizzle_a |-> SWIZZLE_W,
     u |-> IF texture.target = "PIPE_BUFFER"
           THEN u_buf_words(0, (texture.width0 \div BlockBytes(format)) - 1)
           ELSE u_tex_words(0, texture.array_size - 1, 0, texture.last_level,
                            msb_first)]

\* pipe->create_sampler_view: a view of the texture, owned by the context
create_sampler_view(pipe, texture, templ) ==
    [templ EXCEPT !.context = pipe, !.texture = texture]

\* the outcome of a call in which an assert failed: the process is aborted
Aborted == [aborted |-> TRUE]

\* lines 300 and 303, on the fields of templ.u.tex as stored; the asserts
\* are compiled in unless the build defines NDEBUG (st.asserts)
tex_asserts_hold(t) ==
    /\ t.first_level <= t.last_level
    /\ t.first_layer <= t.last_layer

\* a slip: the last element is taken one too far
st_create_texture_sampler_view_from_stobj_OnePast(s, obj, format, version) ==
    LET swizzle == get_texture_format_swizzle(s, obj, version)
        templ == u_sampler_view_default_template(obj.pt, format, s.msb_first)
        swizzled(t) == [t EXCEPT !.swizzle_r = GET_SWZ(swizzle, 0),
                                 !.swizzle_g = GET_SWZ(swizzle, 1),
                                 !.swizzle_b = GET_SWZ(swizzle, 2),
                                 !.swizzle_a = GET_SWZ(swizzle, 3)]
    IN  IF obj.pt.target = "PIPE_BUFFER"
        THEN LET base == obj.BufferOffset
                 size == IF obj.BufferSize < 0 THEN obj.pt.width0 - base
                         ELSE Min(obj.pt.width0 - base, obj.BufferSize)
                 f == (base \div BlockBytes(templ.format)) * 1
                 n == (size \div BlockBytes(templ.format)) * 1
             IN  IF base >= obj.pt.width0 THEN NULL
                 ELSE create_sampler_view(s.pipe, obj.pt,
                          swizzled([templ EXCEPT !.u = u_buf_words(f, f + n)]))
        ELSE LET u == u_tex_words(obj.MinLayer, last_layer(obj),
                                  obj.MinLevel + obj.BaseLevel, last_level(obj),
                                  s.msb_first)
             IN  IF s.asserts /\ ~tex_asserts_hold(u_tex(u, s.msb_first))
                 THEN Aborted
                 ELSE create_sampler_view(s.pipe, obj.pt,
                          swizzled([templ EXCEPT
                              !.u = u,
                              !.target = gl_target_to_pipe(obj.Target)]))

\* lines 267-313; NULL when a buffer texture's range is empty, Aborted when
\* an assert fails in a build that has them
st_create_texture_sampler_view_from_stobj(s, obj, format, version) ==
    LET swizzle == get_texture_format_swizzle(s, obj, version)
        templ == u_sampler_view_default_template(obj.pt, format, s.msb_first)
        swizzled(t) == [t EXCEPT !.swizzle_r = GET_SWZ(swizzle, 0),
                                 !.swizzle_g = GET_SWZ(swizzle, 1),
                                 !.swizzle_b = GET_SWZ(swizzle, 2),
                                 !.swizzle_a = GET_SWZ(swizzle, 3)]
    IN  IF obj.pt.target = "PIPE_BUFFER"
        THEN LET base == obj.BufferOffset
                 \* (unsigned)BufferSize: -1, the whole buffer, is UINT_MAX
                 size == IF obj.BufferSize < 0 THEN obj.pt.width0 - base
                         ELSE Min(obj.pt.width0 - base, obj.BufferSize)
                 f == (base \div BlockBytes(templ.format)) * 1
                 n == (size \div BlockBytes(templ.format)) * 1
             IN  IF base >= obj.pt.width0 THEN NULL
                 ELSE IF n = 0 THEN NULL
                 ELSE create_sampler_view(s.pipe, obj.pt,
                          swizzled([templ EXCEPT !.u = u_buf_words(f, f + (n - 1))]))
        ELSE LET u == u_tex_words(obj.MinLayer, last_layer(obj),
                                  obj.MinLevel + obj.BaseLevel, last_level(obj),
                                  s.msb_first)
             IN  IF s.asserts /\ ~tex_asserts_hold(u_tex(u, s.msb_first))
                 THEN Aborted
                 ELSE create_sampler_view(s.pipe, obj.pt,
                          swizzled([templ EXCEPT
                              !.u = u,
                              !.target = gl_target_to_pipe(obj.Target)]))

\* lines 330-338: the format the view is asked in
NarrowedFormat(obj, format) ==
    IF util_format_is_depth_and_stencil(format)
    THEN IF obj.StencilSampling THEN util_format_stencil_only(format)
         ELSE IF obj._BaseFormat = "GL_STENCIL_INDEX"
              THEN util_format_stencil_only(format)
              ELSE format
    ELSE format

\* lines 342-348: the cached view is not what would be built now
ViewHasChanged(s, obj, view, format, version) ==
    \/ check_sampler_swizzle(s, obj, view, version)
    \/ format # view.format
    \/ gl_target_to_pipe(obj.Target) # view.target
    \/ obj.MinLevel + obj.BaseLevel # u_tex(view.u, s.msb_first).first_level
    \/ last_level(obj) # u_tex(view.u, s.msb_first).last_level
    \/ obj.MinLayer # u_tex(view.u, s.msb_first).first_layer
    \/ last_layer(obj) # u_tex(view.u, s.msb_first).last_layer

\* a slip: a valid view is handed back whatever context owns it
st_get_texture_sampler_view_from_stobj_AnyContext(s, obj, format0, version, slot) ==
    IF obj = NULL \/ obj.pt = NULL
    THEN [sv |-> NULL, slot |-> slot, released |-> FALSE, created |-> FALSE]
    ELSE LET format == NarrowedFormat(obj, format0)
             dereference == slot # NULL /\ ViewHasChanged(s, obj, slot, format, version)
             kept == IF dereference THEN NULL ELSE slot
         IN  IF kept = NULL
             THEN LET new_sv == st_create_texture_sampler_view_from_stobj(
                                    s, obj, format, version)
                  IN  [sv |-> new_sv, slot |-> new_sv, released |-> dereference,
                       created |-> new_sv # NULL]
             ELSE [sv |-> kept, slot |-> kept, released |-> FALSE,
                   created |-> FALSE]

\* lines 316-366: slot is *sv on entry; the result has *sv on return (also
\* the value returned), and whether a view was released and one created
st_get_texture_sampler_view_from_stobj(s, obj, format0, version, slot) ==
    IF obj = NULL \/ obj.pt = NULL
    THEN [sv |-> NULL, slot |-> slot, released |-> FALSE, created |-> FALSE]
    ELSE LET format == NarrowedFormat(obj, format0)
             dereference == slot # NULL /\ ViewHasChanged(s, obj, slot, format, version)
             kept == IF dereference THEN NULL ELSE slot
         IN  IF kept = NULL
             THEN LET new_sv == st_create_texture_sampler_view_from_stobj(
                                    s, obj, format, version)
                  IN  [sv |-> new_sv, slot |-> new_sv, released |-> dereference,
                       created |-> new_sv # NULL]
             ELSE IF kept.context # s.pipe
             THEN LET new_sv == create_sampler_view(s.pipe, obj.pt, kept)
                  IN  [sv |-> new_sv, slot |-> new_sv, released |-> TRUE,
                       created |-> TRUE]
             ELSE [sv |-> kept, slot |-> kept, released |-> FALSE,
                   created |-> FALSE]

\* lines 396-409
view_format_of(s, obj, sampler) ==
    IF obj.Target = "GL_TEXTURE_BUFFER"
    THEN st_mesa_format_to_pipe_format(obj._BufferObjectFormat)
    ELSE LET view_format == IF obj.surface_based THEN obj.surface_format
                            ELSE obj.pt.format
         IN  IF sampler.sRGBDecode = "GL_SKIP_DECODE_EXT"
             THEN util_format_linear(view_format)
             ELSE view_format

NoCall == NULL

\* an assert has failed: nothing runs any more
TexAborted == last # NoCall /\ last.aborted

\* lines 368-415; retval is st_finalize_texture's answer
update_single_texture(retval) ==
    /\ ~TexAborted
    /\ IF ~retval
       THEN /\ last' = [ret |-> FALSE, aborted |-> FALSE, sampler_view |-> NULL,
                        before |-> sv, released |-> FALSE, created |-> FALSE,
                        changed |-> changed]
            /\ UNCHANGED <<sv, changed>>
       ELSE LET r == st_get_texture_sampler_view_from_stobj(
                         st, stObj, view_format_of(st, stObj, samp),
                         glsl_version, sv)
            IN  IF r.sv = Aborted
                THEN /\ sv' = IF r.released THEN NULL ELSE sv
                     /\ last' = [ret |-> FALSE, aborted |-> TRUE,
                                 sampler_view |-> NULL, before |-> sv,
                                 released |-> r.released, created |-> FALSE,
                                 changed |-> changed]
                     /\ UNCHANGED changed
                ELSE /\ sv' = r.slot
                     /\ last' = [ret |-> TRUE, aborted |-> FALSE,
                                 sampler_view |-> r.sv, before |-> sv,
                                 released |-> r.released, created |-> r.created,
                                 changed |-> changed]
                     /\ changed' = "none"
    /\ UNCHANGED <<st, stObj, samp, glsl_version, blitVars, swzVars, stageVars, atomVars>>

(***************************************************************************)
(* The texture objects of the model and the state changes between two      *)
(* resolutions.  The changes are made by GL entry points outside this      *)
(* file, and this file takes the object as it finds it: BaseLevel and      *)
(* _MaxLevel are limited by the levels of the texture the object was made  *)
(* of, not by the levels of a view or of the resource.                     *)
(***************************************************************************)
\* the last mip level of a mipmapped resource
TexMaxLevel == 2

\* the last layer of an array resource
TexMaxLayer == 2

\* the elements (of 4 bytes) of the buffer behind a buffer texture
MaxElements == 2

UserSwizzles ==
    {SWIZZLE_XYZW,
     MAKE_SWIZZLE4(SWIZZLE_X, SWIZZLE_Y, SWIZZLE_Z, SWIZZLE_ONE),
     MAKE_SWIZZLE4(SWIZZLE_W, SWIZZLE_Z, SWIZZLE_Y, SWIZZLE_X)}

DecodeModes == {"GL_DECODE_EXT", "GL_SKIP_DECODE_EXT"}

GlslVersions == {0, 120, 130}

DepthModes == {"GL_LUMINANCE", "GL_INTENSITY", "GL_ALPHA", "GL_RED"}

PipeResource(target, format, top_level, array_size, width0) ==
    [target |-> target, format |-> format, last_level |-> top_level,
     array_size |-> array_size, width0 |-> width0]

\* a texture object as glGenTextures and the first upload leave it
TextureObject(target, baseFormat, internalFormat, pt) ==
    [Target |-> target, _Swizzle |-> SWIZZLE_XYZW, DepthMode |-> "GL_LUMINANCE",
     BaseLevel |-> 0, _MaxLevel |-> pt.last_level,
     MinLevel |-> 0, NumLevels |-> 1, MinLayer |-> 0, NumLayers |-> 1,
     Immutable |-> FALSE, StencilSampling |-> FALSE,
     BufferOffset |-> 0, BufferSize |-> -1,
     _BufferObjectFormat |-> "MESA_FORMAT_NONE",
     _BaseFormat |-> baseFormat, InternalFormat |-> internalFormat,
     surface_based |-> FALSE, surface_format |-> "NONE", pt |-> pt]

\* an sRGB texture with mipmaps
SRGBTexture ==
    TextureObject("GL_TEXTURE_2D", "GL_RGBA", "GL_SRGB8_ALPHA8",
                  PipeResource("PIPE_TEXTURE_2D", SRGBFormat, TexMaxLevel, 1, 64))

\* an RGB texture stored in a format that has an alpha channel
RGBTexture ==
    TextureObject("GL_TEXTURE_2D", "GL_RGB", "GL_RGB8",
                  PipeResource("PIPE_TEXTURE_2D", ColorFormat, 0, 1, 64))

DepthTexture ==
    TextureObject("GL_TEXTURE_2D", "GL_DEPTH_STENCIL", "GL_DEPTH24_STENCIL8",
                  PipeResource("PIPE_TEXTURE_2D", DepthStencilFormat, 0, 1, 64))

\* the views of an immutable array texture, <<MinLevel, NumLevels, MinLayer,
\* NumLayers>>: the whole texture, one level and layer, and a view from
\* level and layer 1 whose counts reach one past the resource
ViewRanges ==
    {<<0, TexMaxLevel + 1, 0, TexMaxLayer + 1>>,
     <<1, 1, 1, 1>>,
     <<1, TexMaxLevel + 1, 1, TexMaxLayer + 1>>}

ArrayView(r) ==
    [TextureObject("GL_TEXTURE_2D_ARRAY", "GL_RGBA", "GL_RGBA8",
                   PipeResource("PIPE_TEXTURE_2D_ARRAY", ColorFormat, TexMaxLevel,
                                TexMaxLayer + 1, 64))
        EXCEPT !.Immutable = TRUE, !.MinLevel = r[1], !.NumLevels = r[2],
               !.MinLayer = r[3], !.NumLayers = r[4],
               !._MaxLevel = Min(r[2] - 1, TexMaxLevel)]

BufferTexture ==
    [TextureObject("GL_TEXTURE_BUFFER", "GL_NONE", "GL_R32F",
                   PipeResource("PIPE_BUFFER", BufferResourceFormat, 0, 1,
                                4 * MaxElements))
        EXCEPT !._BufferObjectFormat = "MESA_FORMAT_R_FLOAT32"]

TextureObjects ==
    {SRGBTexture, RGBTexture, DepthTexture, BufferTexture}
        \cup {ArrayView(r) : r \in ViewRanges}

StContext(api, version, msb_first, asserts) ==
    [pipe |-> "pipe", API |-> api, Version |-> version, msb_first |-> msb_first,
     asserts |-> asserts]

\* desktop GL and, for the depth texture, OpenGL ES 3.0; either bit-field
\* order; a build without asserts (NDEBUG) and, for the texture views, one
\* with them
StContexts(obj) ==
    {StContext("API_OPENGL_COMPAT", 30, m, FALSE) : m \in BOOLEAN}
        \cup (IF obj.Immutable
              THEN {StContext("API_OPENGL_COMPAT", 30, FALSE, TRUE)} ELSE {})
        \cup (IF obj = DepthTexture
              THEN {StContext("API_OPENGLES2", 30, FALSE, FALSE)} ELSE {})

\* the levels a mipmapped texture can be limited to, <<BaseLevel, _MaxLevel>>:
\* any range of its levels, whatever the view holds, and the last level
\* as base with level 0 as maximum
LevelRanges(obj) ==
    IF obj.pt.last_level = 0 THEN {<<0, 0>>}
    ELSE {<<b, m>> \in (0 .. TexMaxLevel) \X (0 .. TexMaxLevel) : b <= m}
             \cup {<<TexMaxLevel, 0>>}

\* the ranges glTexBufferRange can give a buffer texture, in bytes; a buffer
\* made smaller afterwards leaves an offset at or behind its end
BufferOffsets == {4 * e : e \in 0 .. MaxElements}

BufferSizes == {-1, 2} \cup {4 * e : e \in 1 .. MaxElements}

\* one more thing was set since the unit was last resolved
Touch(what) ==
    /\ ~TexAborted
    /\ changed' = IF changed = "none" THEN what ELSE "many"
    /\ last' = NoCall

IsBufferTexture == stObj.Target = "GL_TEXTURE_BUFFER"

SetSwizzle(swz) ==
    /\ ~IsBufferTexture
    /\ swz # stObj._Swizzle
    /\ stObj' = [stObj EXCEPT !._Swizzle = swz]
    /\ Touch("_Swizzle")
    /\ UNCHANGED <<st, samp, glsl_version, sv, blitVars, swzVars, stageVars, atomVars>>

SetSRGBDecode(mode) ==
    /\ mode # samp.sRGBDecode
    /\ samp' = [samp EXCEPT !.sRGBDecode = mode]
    /\ Touch("sRGBDecode")
    /\ UNCHANGED <<st, stObj, glsl_version, sv, blitVars, swzVars, stageVars, atomVars>>

UseShader(version) ==
    /\ version # glsl_version
    /\ glsl_version' = version
    /\ Touch("glsl_version")
    /\ UNCHANGED <<st, stObj, samp, sv, blitVars, swzVars, stageVars, atomVars>>

SetDepthMode(mode) ==
    /\ util_format_is_depth_or_stencil(stObj.pt.format)
    /\ ~mesa_is_gles3(st)
    /\ mode # stObj.DepthMode
    /\ stObj' = [stObj EXCEPT !.DepthMode = mode]
    /\ Touch("DepthMode")
    /\ UNCHANGED <<st, samp, glsl_version, sv, blitVars, swzVars, stageVars, atomVars>>

SetStencilSampling(on) ==
    /\ util_format_is_depth_and_stencil(stObj.pt.format)
    /\ on # stObj.StencilSampling
    /\ stObj' = [stObj EXCEPT !.StencilSampling = on]
    /\ Touch("StencilSampling")
    /\ UNCHANGED <<st, samp, glsl_version, sv, blitVars, swzVars, stageVars, atomVars>>

SetLevels(range) ==
    /\ ~IsBufferTexture
    /\ range \in LevelRanges(stObj)
    /\ range # <<stObj.BaseLevel, stObj._MaxLevel>>
    /\ stObj' = [stObj EXCEPT !.BaseLevel = range[1], !._MaxLevel = range[2]]
    /\ Touch("levels")
    /\ UNCHANGED <<st, samp, glsl_version, sv, blitVars, swzVars, stageVars, atomVars>>

SetBufferRange(offset, size) ==
    /\ IsBufferTexture
    /\ <<offset, size>> # <<stObj.BufferOffset, stObj.BufferSize>>
    /\ stObj' = [stObj EXCEPT !.BufferOffset = offset, !.BufferSize = size]
    /\ Touch("BufferRange")
    /\ UNCHANGED <<st, samp, glsl_version, sv, blitVars, swzVars, stageVars, atomVars>>

\* the blit part while the sampler-view part runs
BlitAtRest ==
    /\ vc4 = Context(FALSE, FALSE)
    /\ entry = vc4
    /\ blit_info = NoRequest
    /\ info = NoRequest
    /\ log = <<>>
    /\ jobs = <<>>
    /\ phase = "idle"

InitTex ==
    /\ stObj \in TextureObjects
    /\ st \in StContexts(stObj)
    /\ samp = [sRGBDecode |-> "GL_DECODE_EXT"]
    /\ glsl_version = 0
    /\ sv = NULL
    /\ changed = "none"
    /\ last = NoCall
    /\ BlitAtRest
    /\ SwizzleAtRest
    /\ StageAtRest
    /\ AtomsAtRest

NextTex ==
    \/ \E swz \in UserSwizzles : SetSwizzle(swz)
    \/ \E mode \in DecodeModes : SetSRGBDecode(mode)
    \/ \E version \in GlslVersions : UseShader(version)
    \/ \E mode \in DepthModes : SetDepthMode(mode)
    \/ \E on \in BOOLEAN : SetStencilSampling(on)
    \/ \E range \in (0 .. TexMaxLevel) \X (0 .. TexMaxLevel) : SetLevels(range)
    \/ \E offset \in BufferOffsets, size \in BufferSizes : SetBufferRange(offset, size)
    \/ \E retval \in BOOLEAN : update_single_texture(retval)

SpecTex == InitTex /\ [][NextTex]_vars

(***************************************************************************)
(* Properties of the sampler-view cache.                                   *)
(***************************************************************************)
\* update_single_texture has just resolved the unit
Resolved == last # NoCall /\ last.ret

\* ... and found a view in the cache slot
ResolvedFromCache == Resolved /\ last.before # NULL

\* C7 as stated: a second resolution with nothing changed since the first
\* returns the cached view: nothing is released, nothing created, whatever
\* the kind of texture.
C7_AsStated ==
    (ResolvedFromCache /\ last.changed = "none") =>
        /\ ~last.released
        /\ ~last.created
        /\ last.sampler_view = last.before

\* what holds of C7: it holds of the textures that are not buffer-backed
C7_TextureViewsKept ==
    (ResolvedFromCache /\ last.changed = "none" /\ ~IsBufferTexture) =>
        /\ ~last.released
        /\ ~last.created
        /\ last.sampler_view = last.before

\* the four terms of a packed swizzle, as a sequence
Terms(swz) == <<swz % 8, (swz \div 8) % 8, (swz \div 64) % 8, (swz \div 512) % 8>>

\* the swizzle the format of a texture calls for, as the terms 0..3 (x, y, z,
\* w), 4 (zero) and 5 (one)
FormatTerms(s, obj, version) ==
    LET depth_mode == IF s.API = "API_OPENGLES2" THEN "GL_RED" ELSE obj.DepthMode
    IN  CASE obj._BaseFormat = "GL_RGBA" -> <<0, 1, 2, 3>>
          [] obj._BaseFormat = "GL_RGB" -> <<0, 1, 2, 5>>
          [] obj._BaseFormat = "GL_DEPTH_STENCIL" /\ depth_mode = "GL_LUMINANCE" ->
                <<0, 0, 0, 5>>
          [] obj._BaseFormat = "GL_DEPTH_STENCIL" /\ depth_mode = "GL_INTENSITY" ->
                <<0, 0, 0, 0>>
          [] obj._BaseFormat = "GL_DEPTH_STENCIL" /\ depth_mode = "GL_ALPHA" ->
                IF version >= 130 THEN <<0, 0, 0, 0>> ELSE <<4, 4, 4, 0>>
          [] obj._BaseFormat = "GL_DEPTH_STENCIL" /\ depth_mode = "GL_RED" ->
                <<0, 4, 4, 5>>
          [] OTHER -> <<0, 1, 2, 3>>

\* the user's swizzle applied to the format's
ComposedTerms(s, obj, version) ==
    LET user == Terms(obj._Swizzle)
        fmt == FormatTerms(s, obj, version)
    IN  [i \in 1 .. 4 |-> IF user[i] <= 3 THEN fmt[user[i] + 1] ELSE user[i]]

\* the descriptor derived from the current state of a texture that is not
\* buffer-backed
DerivedDescriptor ==
    LET fmt0 == IF samp.sRGBDecode = "GL_SKIP_DECODE_EXT" /\ stObj.pt.format = SRGBFormat
                THEN ColorFormat ELSE stObj.pt.format
        top == IF stObj.MinLevel + stObj._MaxLevel <= stObj.pt.last_level
               THEN stObj.MinLevel + stObj._MaxLevel ELSE stObj.pt.last_level
        view_top == stObj.MinLevel + stObj.NumLevels - 1
        view_end == stObj.MinLayer + stObj.NumLayers - 1
    IN  [swizzle |-> ComposedTerms(st, stObj, glsl_version),
         format |-> IF fmt0 = DepthStencilFormat /\ stObj.StencilSampling
                    THEN StencilOnlyFormat ELSE fmt0,
         target |-> IF stObj.Target = "GL_TEXTURE_2D_ARRAY"
                    THEN "PIPE_TEXTURE_2D_ARRAY" ELSE "PIPE_TEXTURE_2D",
         first_level |-> stObj.MinLevel + stObj.BaseLevel,
         last_level |-> IF stObj.Immutable /\ view_top < top THEN view_top ELSE top,
         first_layer |-> stObj.MinLayer,
         last_layer |-> IF stObj.Immutable /\ stObj.pt.array_size > 1
                           /\ view_end < stObj.pt.array_size - 1
                        THEN view_end ELSE stObj.pt.array_size - 1]

\* the descriptor a view of a texture stores
DescriptorOf(view) ==
    LET t == u_tex(view.u, st.msb_first)
    IN  [swizzle |-> <<view.swizzle_r, view.swizzle_g, view.swizzle_b, view.swizzle_a>>,
         format |-> view.format,
         target |-> view.target,
         first_level |-> t.first_level, last_level |-> t.last_level,
         first_layer |-> t.first_layer, last_layer |-> t.last_layer]

\* a depth texture read in depth mode ALPHA
DepthAlpha ==
    /\ stObj._BaseFormat = "GL_DEPTH_STENCIL"
    /\ stObj.DepthMode = "GL_ALPHA"

\* C8 as stated: after a change of only the user swizzle, of only the
\* sRGB-decode flag, or of only the GLSL version (depth texture, depth mode
\* ALPHA) the next resolution releases the cached view and builds a new one;
\* after a change of state that does not enter the descriptor (the GLSL
\* version, for a texture that is not a depth texture) it does not.
C8_AsStated ==
    ResolvedFromCache =>
        /\ ( \/ last.changed \in {"_Swizzle", "sRGBDecode"}
             \/ last.changed = "glsl_version" /\ DepthAlpha )
           => (last.released /\ last.created)
        /\ (last.changed = "glsl_version" /\ stObj._BaseFormat # "GL_DEPTH_STENCIL")
           => ~last.released

\* C8, amended: for a texture that is not buffer-backed the cached view is
\* released and a new one built exactly when the descriptor derived from the
\* current state (composed swizzle, view format, target, levels, layers)
\* differs from the one the cached view stores; otherwise the cached view is
\* returned.  A change of the user swizzle, of the sRGB-decode flag or of the
\* GLSL version that leaves the descriptor as it was releases nothing.
C8_RebuiltIffDescriptorDiffers ==
    (ResolvedFromCache /\ ~IsBufferTexture) =>
        /\ last.released <=> (DescriptorOf(last.before) # DerivedDescriptor)
        /\ last.released <=> last.created
        /\ ~last.released => last.sampler_view = last.before
        /\ last.sampler_view # NULL
        /\ DescriptorOf(last.sampler_view) = DerivedDescriptor

\* a resolution after a change of only the user swizzle that released the
\* cached view and built another
C8_Witness ==
    /\ ResolvedFromCache
    /\ ~IsBufferTexture
    /\ last.changed = "_Swizzle"
    /\ last.released
    /\ last.created
    /\ last.sampler_view # last.before

\* a resolution after a change of only the user swizzle that kept the view
C8_KeptAfterSwizzle ==
    /\ ResolvedFromCache
    /\ ~IsBufferTexture
    /\ last.changed = "_Swizzle"
    /\ ~last.released

\* the view that would be built from the current state
FreshView ==
    st_create_texture_sampler_view_from_stobj(
        st, stObj, NarrowedFormat(stObj, view_format_of(st, stObj, samp)),
        glsl_version)

\* C9 as stated: every view a resolution returns is the view that would be
\* built from the current state; a stale cached view is never returned.
C9_AsStated ==
    (Resolved /\ last.sampler_view # NULL) => last.sampler_view = FreshView

\* what holds of C9: it holds of the textures that are not buffer-backed
C9_TextureViewsFresh ==
    (Resolved /\ last.sampler_view # NULL /\ ~IsBufferTexture) =>
        last.sampler_view = FreshView

\* C10 as stated: a view returned for a texture has first level MinLevel +
\* BaseLevel, last level min(MinLevel + _MaxLevel, resource last level),
\* clamped to MinLevel + NumLevels - 1 for an immutable texture, first layer
\* MinLayer and the array-size-clamped last layer, with first <= last for
\* both, whatever the state of the texture object; a view returned for a
\* buffer texture has first element <= last element.
C10_AsStated ==
    (Resolved /\ last.sampler_view # NULL) =>
        IF IsBufferTexture
        THEN u_buf(last.sampler_view.u).first_element
                 <= u_buf(last.sampler_view.u).last_element
        ELSE LET t == u_tex(last.sampler_view.u, st.msb_first)
             IN  /\ t.first_level = DerivedDescriptor.first_level
                 /\ t.last_level = DerivedDescriptor.last_level
                 /\ t.first_level <= t.last_level
                 /\ t.first_layer = DerivedDescriptor.first_layer
                 /\ t.last_layer = DerivedDescriptor.last_layer
                 /\ t.first_layer <= t.last_layer

\* what holds of C10: the four values are computed as the claim says in
\* every state; the ranges are ordered in a build that has the asserts of
\* lines 300 and 303 (the call is aborted otherwise), and in every build when
\* BaseLevel is at most _MaxLevel, at most the last level of the resource
\* less MinLevel and, for an immutable texture, below NumLevels
C10_RangesAsComputed ==
    (Resolved /\ last.sampler_view # NULL /\ ~IsBufferTexture) =>
        LET t == u_tex(last.sampler_view.u, st.msb_first)
            ordered == /\ t.first_level <= t.last_level
                       /\ t.first_layer <= t.last_layer
        IN  /\ t.first_level = DerivedDescriptor.first_level
            /\ t.last_level = DerivedDescriptor.last_level
            /\ t.first_layer = DerivedDescriptor.first_layer
            /\ t.last_layer = DerivedDescriptor.last_layer
            /\ st.asserts => ordered
            /\ ( /\ stObj.BaseLevel <= stObj._MaxLevel
                 /\ stObj.MinLevel + stObj.BaseLevel <= stObj.pt.last_level
                 /\ stObj.Immutable => stObj.BaseLevel <= stObj.NumLevels - 1 )
               => ordered

\* a one-level view of level 1 of an immutable array texture with BaseLevel
\* and _MaxLevel set to the texture's level 2, resolved by a build without
\* asserts: the view returned starts at level 3 and ends at level 1
C10_Inverted ==
    /\ Resolved
    /\ last.sampler_view # NULL
    /\ ~st.asserts
    /\ stObj.Immutable
    /\ stObj.MinLevel = 1
    /\ stObj.NumLevels = 1
    /\ stObj.BaseLevel = 2
    /\ stObj._MaxLevel = 2
    /\ u_tex(last.sampler_view.u, st.msb_first).first_level = 3
    /\ u_tex(last.sampler_view.u, st.msb_first).last_level = 1

\* the same texture resolved by a build with asserts: the call is aborted
C10_Aborted ==
    /\ TexAborted
    /\ stObj.Immutable
    /\ stObj.BaseLevel = 2
    /\ stObj.NumLevels = 1

\* a view whose level and layer counts reach past the resource: both clamps
\* to the resource bind
C10_Clamped ==
    /\ Resolved
    /\ last.sampler_view # NULL
    /\ stObj.Immutable
    /\ stObj.MinLevel + stObj._MaxLevel > stObj.pt.last_level
    /\ stObj.MinLayer + stObj.NumLayers - 1 > stObj.pt.array_size - 1
    /\ u_tex(last.sampler_view.u, st.msb_first).last_level = stObj.pt.last_level
    /\ u_tex(last.sampler_view.u, st.msb_first).last_layer = stObj.pt.array_size - 1

(***************************************************************************)
(* The swizzle functions on their own: a call is drawn with its arguments, *)
(* then returns.                                                           *)
(***************************************************************************)
SwizzleTerms ==
    {SWIZZLE_X, SWIZZLE_Y, SWIZZLE_Z, SWIZZLE_W, SWIZZLE_ZERO, SWIZZLE_ONE}

\* every swizzle of four valid terms
AllSwizzles ==
    {MAKE_SWIZZLE4(a, b, c, d) : a \in SwizzleTerms, b \in SwizzleTerms,
                                 c \in SwizzleTerms, d \in SwizzleTerms}

\* the base formats compute_texture_format_swizzle switches over
BaseFormats ==
    {"GL_RGBA", "GL_RGB", "GL_RG", "GL_RED", "GL_ALPHA", "GL_LUMINANCE",
     "GL_LUMINANCE_ALPHA", "GL_INTENSITY", "GL_STENCIL_INDEX", "GL_DEPTH_STENCIL",
     "GL_DEPTH_COMPONENT"}

\* formats with alpha, with four channels and none of them alpha, with two
\* channels, with one
ActualFormats ==
    {ColorFormat, SRGBFormat, "B8G8R8X8_UNORM", DepthStencilFormat, BufferFormat,
     "L8_UNORM"}

\* shader versions on both sides of 130, and 0: no shader bound to the stage
ShaderVersions == {0, 100, 110, 120, 129, 130, 131, 140, 150, 330, 450}

FormatCalls ==
    {[fn |-> "compute_texture_format_swizzle", baseFormat |-> b, depthMode |-> d,
      actualFormat |-> f, glsl_version |-> v] :
        b \in BaseFormats, d \in DepthModes, f \in ActualFormats, v \in ShaderVersions}

\* the swizzles a format can call for
FormatSwizzles ==
    {compute_texture_format_swizzle(c.baseFormat, c.depthMode, c.actualFormat,
                                    c.glsl_version) : c \in FormatCalls}

\* any user swizzle over a format's swizzle, and the user's default over any
SwizzleCalls ==
    {[fn |-> "swizzle_swizzle", swizzle1 |-> u, swizzle2 |-> c] :
        u \in AllSwizzles, c \in FormatSwizzles}
    \cup {[fn |-> "swizzle_swizzle", swizzle1 |-> SWIZZLE_XYZW, swizzle2 |-> c] :
             c \in AllSwizzles}

call_swizzle_swizzle ==
    /\ call # NULL
    /\ call.fn = "swizzle_swizzle"
    /\ result = NULL
    /\ result' = [ret |-> swizzle_swizzle(call.swizzle1, call.swizzle2)]
    /\ UNCHANGED <<call, blitVars, texVars, stageVars, atomVars>>

call_compute_texture_format_swizzle ==
    /\ call # NULL
    /\ call.fn = "compute_texture_format_swizzle"
    /\ result = NULL
    /\ result' = [ret |-> compute_texture_format_swizzle(call.baseFormat, call.depthMode,
                                                        call.actualFormat,
                                                        call.glsl_version)]
    /\ UNCHANGED <<call, blitVars, texVars, stageVars, atomVars>>

InitSwizzle ==
    /\ call \in SwizzleCalls \cup FormatCalls
    /\ result = NULL
    /\ BlitAtRest
    /\ TexAtRest
    /\ StageAtRest
    /\ AtomsAtRest

NextSwizzle ==
    \/ call_swizzle_swizzle
    \/ call_compute_texture_format_swizzle

SpecSwizzle == InitSwizzle /\ [][NextSwizzle]_vars

(***************************************************************************)
(* Properties of the swizzle functions.                                    *)
(***************************************************************************)
SwizzleReturned == call # NULL /\ call.fn = "swizzle_swizzle" /\ result # NULL

\* C11: swizzle_swizzle(user, computed) takes computed[user[i]] where user[i]
\* names a channel and the constant user[i] where it is ZERO or ONE; the
\* identity swizzle is a unit on both sides: identity over computed is
\* computed, user over identity is user.
C11_IdentityIsUnit ==
    SwizzleReturned =>
        LET user == Terms(call.swizzle1)
            computed == Terms(call.swizzle2)
            out == Terms(result.ret)
        IN  /\ \A i \in 1 .. 4 :
                   out[i] = IF user[i] <= 3 THEN computed[user[i] + 1] ELSE user[i]
            /\ result.ret = out[1] + 8 * out[2] + 64 * out[3] + 512 * out[4]
            /\ user = <<0, 1, 2, 3>> => result.ret = call.swizzle2
            /\ computed = <<0, 1, 2, 3>> => result.ret = call.swizzle1

\* a user swizzle with a constant and a permutation, over the identity
C11_Witness ==
    /\ SwizzleReturned
    /\ Terms(call.swizzle2) = <<0, 1, 2, 3>>
    /\ Terms(call.swizzle1) = <<2, 1, 0, 5>>
    /\ result.ret = call.swizzle1

FormatReturned ==
    call # NULL /\ call.fn = "compute_texture_format_swizzle" /\ result # NULL

\* C12: for a depth/stencil base format, depth mode ALPHA gives (x,x,x,x)
\* exactly when the GLSL version is >= 130 and (0,0,0,x) for every lower
\* version, 0 included; LUMINANCE, INTENSITY and RED give (x,x,x,1),
\* (x,x,x,x) and (x,0,0,1) whatever the version.
C12_DepthModeSwizzle ==
    ( /\ FormatReturned
      /\ call.baseFormat \in {"GL_STENCIL_INDEX", "GL_DEPTH_STENCIL", "GL_DEPTH_COMPONENT"} )
    => /\ call.depthMode = "GL_ALPHA" =>
              Terms(result.ret) = IF call.glsl_version >= 130
                              THEN <<0, 0, 0, 0>> ELSE <<4, 4, 4, 0>>
       /\ call.depthMode = "GL_LUMINANCE" => Terms(result.ret) = <<0, 0, 0, 5>>
       /\ call.depthMode = "GL_INTENSITY" => Terms(result.ret) = <<0, 0, 0, 0>>
       /\ call.depthMode = "GL_RED" => Terms(result.ret) = <<0, 4, 4, 5>>

\* depth mode ALPHA read by a shader of version 130
C12_Witness ==
    /\ FormatReturned
    /\ call.baseFormat = "GL_DEPTH_COMPONENT"
    /\ call.depthMode = "GL_ALPHA"
    /\ call.glsl_version = 130
    /\ Terms(result.ret) = <<0, 0, 0, 0>>

\* C21 as stated: LUMINANCE gives (x,x,x,1), INTENSITY (x,x,x,x), RGB
\* (x,y,z,1) and RGBA the identity, whatever format the texture is stored in.
C21_AsStated ==
    FormatReturned =>
        /\ call.baseFormat = "GL_LUMINANCE" => Terms(result.ret) = <<0, 0, 0, 5>>
        /\ call.baseFormat = "GL_INTENSITY" => Terms(result.ret) = <<0, 0, 0, 0>>
        /\ call.baseFormat = "GL_RGB" => Terms(result.ret) = <<0, 1, 2, 5>>
        /\ call.baseFormat = "GL_RGBA" => Terms(result.ret) = <<0, 1, 2, 3>>

\* C21, amended: LUMINANCE gives (x,x,x,1) and INTENSITY (x,x,x,x) when the
\* stored format has more than one channel, RGB gives (x,y,z,1) when the
\* stored format has an alpha channel, and each gives the identity
\* otherwise; RGBA gives the identity for every stored format.
C21_ConstantsForStoredChannels ==
    FormatReturned =>
        LET one_channel == call.actualFormat \in {"R32_FLOAT", "L8_UNORM"}
            alpha == call.actualFormat \in {"B8G8R8A8_UNORM", "B8G8R8A8_SRGB"}
        IN  /\ call.baseFormat = "GL_LUMINANCE" =>
                   Terms(result.ret) = IF one_channel THEN <<0, 1, 2, 3>>
                                       ELSE <<0, 0, 0, 5>>
            /\ call.baseFormat = "GL_INTENSITY" =>
                   Terms(result.ret) = IF one_channel THEN <<0, 1, 2, 3>>
                                       ELSE <<0, 0, 0, 0>>
            /\ call.baseFormat = "GL_RGB" =>
                   Terms(result.ret) = IF alpha THEN <<0, 1, 2, 5>> ELSE <<0, 1, 2, 3>>
            /\ call.baseFormat = "GL_RGBA" => Terms(result.ret) = <<0, 1, 2, 3>>

\* an RGB texture stored with an alpha channel: alpha reads 1
C21_Witness ==
    /\ FormatReturned
    /\ call.baseFormat = "GL_RGB"
    /\ call.actualFormat = ColorFormat
    /\ Terms(result.ret) = <<0, 1, 2, 5>>

(***************************************************************************)
(* update_textures: the views of one shader stage are refreshed from the   *)
(* units its program samples.  Views are objects on a heap, named by an id *)
(* (0 is the null pointer) and shared by reference count between the       *)
(* texture objects' view arrays, the stages' view arrays and the bind      *)
(* calls.                                                                  *)
(***************************************************************************)
\* the sampler units of a stage (max_units)
MaxUnits == 2

Units == 0 .. (MaxUnits - 1)

\* two contexts that share their texture objects
StContextA == StContext("API_OPENGL_COMPAT", 30, FALSE, FALSE)

StContextB == [StContextA EXCEPT !.pipe = "pipe2"]

ContextOf(pipe) == IF pipe = StContextA.pipe THEN StContextA ELSE StContextB

\* the stage arrays of the model: <<context, stage>>
Owners ==
    {<<StContextA.pipe, "MESA_SHADER_VERTEX">>,
     <<StContextA.pipe, "MESA_SHADER_FRAGMENT">>,
     <<StContextB.pipe, "MESA_SHADER_FRAGMENT">>}

\* a texture object keeps one view per context
ViewSlots == 0 .. 1

\* every view is held by a texture object or a stage; one more is created
\* before the one it replaces is released
MaxViews == (Cardinality(ViewSlots) + Cardinality(Owners)) * MaxUnits + 1

ViewIds == 1 .. MaxViews

NoView == [view |-> NULL, refcount |-> 0]

\* gl_program: the units sampled, as a bit mask, and the shader's version;
\* SamplerUnits[unit] is unit
Programs ==
    [SamplersUsed : 0 .. (Pow2(MaxUnits) - 1), Version : {130}]

\* programs of two versions that sample no unit or the first one
SharedPrograms ==
    [SamplersUsed : {0, 1}, Version : {120, 130}]

\* the ranges glTexBufferRange gives the buffer texture: the whole buffer,
\* its last element, an offset at the end of the buffer, less than an element
StageBufferRanges ==
    {<<0, -1>>, <<4 * (MaxElements - 1), 4>>, <<4 * MaxElements, -1>>, <<0, 2>>}

\* the texture of a unit: a depth texture read as alpha, a buffer texture,
\* colour textures
StageTexture(texUnit) ==
    CASE texUnit = 0 -> [DepthTexture EXCEPT !.DepthMode = "GL_ALPHA"]
      [] texUnit = 1 -> BufferTexture
      [] OTHER -> RGBTexture

StageSampler == [sRGBDecode |-> "GL_DECODE_EXT"]

\* pipe_sampler_view_reference(&ptr, view) on the reference counts
\* (u_inlines.h): view gains a reference, the view ptr held loses one and is
\* destroyed with its last
pipe_sampler_view_reference(h, ptr, view) ==
    IF ptr = view THEN h
    ELSE LET inc == IF view = 0 THEN h
                    ELSE [h EXCEPT ![view].refcount = @ + 1]
         IN  IF ptr = 0 THEN inc
             ELSE IF inc[ptr].refcount <= 1 THEN [inc EXCEPT ![ptr] = NoView]
             ELSE [inc EXCEPT ![ptr].refcount = @ - 1]

\* create_sampler_view returns a new object holding one reference
NewViewId(h) == CHOOSE id \in ViewIds :
                    /\ h[id] = NoView
                    /\ \A k \in ViewIds : h[k] = NoView => id <= k

\* st_texture_get_sampler_view (st_texture.c): the slot of the texture's view
\* array that holds this context's view; else a free slot, which is handed
\* a reference to another context's view, to be used as a template
st_texture_get_sampler_view(h, slots, s) ==
    LET own == {i \in ViewSlots : slots[i] # 0 /\ h[slots[i]].view.context = s.pipe}
        free == {i \in ViewSlots : slots[i] = 0}
        others == {i \in ViewSlots : slots[i] # 0}
        first(S) == CHOOSE i \in S : \A k \in S : i <= k
        final(S) == CHOOSE i \in S : \A k \in S : i >= k
    IN  IF own # {} THEN [idx |-> first(own), heap |-> h, slots |-> slots]
        ELSE IF others = {} THEN [idx |-> final(free), heap |-> h, slots |-> slots]
        ELSE [idx |-> final(free),
              heap |-> pipe_sampler_view_reference(h, 0, slots[final(others)]),
              slots |-> [slots EXCEPT ![final(free)] = slots[final(others)]]]

\* the element of a set of one element; {e(x) : x \in {v}} has v worked out
\* once for all its uses in e
The(S) == CHOOSE x \in S : TRUE

\* lines 411-413 on the heap, the slot found: the view is validated, built
\* or copied, and the reference counts follow
resolve_in_slot(m, s, texUnit, version, got, found, kept, r) ==
    LET old == got.slots[got.idx]
        h1 == IF r.released THEN pipe_sampler_view_reference(got.heap, old, 0)
              ELSE got.heap
    IN  The({[ret |-> TRUE, sampler_view |-> id,
              heap |-> IF r.created
                       THEN [h EXCEPT ![id] = [view |-> r.sv, refcount |-> 1]]
                       ELSE h,
              obj_views |-> [m.obj_views EXCEPT
                                ![texUnit] = [got.slots EXCEPT ![got.idx] = id]],
              built |-> ~kept,
              copied |-> IF kept /\ found.context # s.pipe
                         THEN {[unit |-> texUnit, from |-> found, to |-> r.sv]}
                         ELSE {}] :
                 <<h, id>> \in {<<h, IF r.created THEN NewViewId(h)
                                     ELSE IF r.slot = NULL THEN 0 ELSE old>> :
                                   h \in {h1}}})

\* lines 368-415 on the heap: m holds heap and obj_views; the result has them
\* after the call, with the return value and the view handed back, whether
\* the view was built in this call (lines 353-355) and, when it was copied
\* from another context's view (lines 357-363), the two views
update_single_texture_on(m, s, texUnit, version, retval) ==
    IF ~retval
    THEN [ret |-> FALSE, sampler_view |-> 0, heap |-> m.heap, obj_views |-> m.obj_views,
          built |-> FALSE, copied |-> {}]
    ELSE The({The({resolve_in_slot(
                       m, s, texUnit, version, got, found,
                       found # NULL
                       /\ ~ViewHasChanged(s, Unit[texUnit], found,
                                          NarrowedFormat(Unit[texUnit], format), version),
                       r) :
                     r \in {st_get_texture_sampler_view_from_stobj(
                               s, Unit[texUnit], format, version, found)}}) :
                <<got, format, found>> \in
                    {<<g, view_format_of(s, Unit[texUnit], StageSampler),
                       IF g.slots[g.idx] = 0 THEN NULL ELSE g.heap[g.slots[g.idx]].view>> :
                        g \in {st_texture_get_sampler_view(
                                   m.heap, m.obj_views[texUnit], s)}}})

\* a slip: the view is stored without taking a reference
store_view_NoReference(m, unit, id) ==
    [m EXCEPT !.sampler_views[unit] = id, !.written = @ \cup {unit}]

\* line 460: pipe_sampler_view_reference(&(sampler_views[unit]), sampler_view)
store_view(m, unit, id) ==
    [m EXCEPT !.heap = pipe_sampler_view_reference(m.heap, m.sampler_views[unit], id),
              !.sampler_views[unit] = id,
              !.written = @ \cup {unit}]

\* a slip: the refresh always goes through the loop
is_noop_Never(samplers_used, old_max) == FALSE

\* line 435
is_noop(samplers_used, old_max) == samplers_used = 0 /\ old_max = 0

\* a slip: the previous count is not looked at
trailing_break_NoOldMax(samplers_used, unit, old_max) == samplers_used = 0

\* line 455: all the old views are reset and no new one is left
trailing_break(samplers_used, unit, old_max) == samplers_used = 0 /\ unit >= old_max

\* lines 452-460: the view of a sampled unit is counted and stored
count_and_store(m, unit, r) ==
    store_view([m EXCEPT !.heap = r.heap, !.obj_views = r.obj_views,
                         !.num_textures = unit + 1,
                         !.resolved = @ \cup {unit},
                         !.built = IF r.built THEN @ \cup {unit} ELSE @,
                         !.copied = @ \cup r.copied],
               unit, r.sampler_view)

\* a slip: a unit that cannot be finalized ends the loop
loop_body_StopOnFailure(m, s, prog, unit, failed, old_max) ==
    LET samplers_used == prog.SamplersUsed \div Pow2(unit)
    IN  IF samplers_used % 2 = 1
        THEN The({IF ~r.ret THEN [m EXCEPT !.stop = TRUE]
                  ELSE count_and_store(m, unit, r) :
                     r \in {update_single_texture_on(m, s, unit, prog.Version,
                                                      unit \notin failed)}})
        ELSE IF trailing_break(samplers_used, unit, old_max)
             THEN [m EXCEPT !.stop = TRUE]
             ELSE store_view(m, unit, 0)

\* lines 442-460: one pass of the loop; failed are the units whose texture
\* st_finalize_texture cannot finalize
loop_body(m, s, prog, unit, failed, old_max) ==
    LET samplers_used == prog.SamplersUsed \div Pow2(unit)
    IN  IF samplers_used % 2 = 1
        THEN The({IF ~r.ret THEN m
                  ELSE count_and_store(m, unit, r) :
                     r \in {update_single_texture_on(m, s, unit, prog.Version,
                                                      unit \notin failed)}})
        ELSE IF trailing_break(samplers_used, unit, old_max)
             THEN [m EXCEPT !.stop = TRUE]
             ELSE store_view(m, unit, 0)

RECURSIVE loop_from(_, _, _, _, _, _)
\* line 441: for (unit = 0; unit < max_units; unit++, samplers_used >>= 1)
loop_from(m, s, prog, unit, failed, old_max) ==
    IF unit >= MaxUnits \/ m.stop THEN m
    ELSE The({loop_from(n, s, prog, unit + 1, failed, old_max) :
                 n \in {loop_body(m, s, prog, unit, failed, old_max)}})

RECURSIVE cso_references(_, _, _, _, _)
\* cso_set_sampler_views (cso_context.c): the context's binding takes a
\* reference to each of the count views and drops the ones behind them
cso_references(h, held, views, count, unit) ==
    IF unit >= MaxUnits THEN [heap |-> h, views |-> held]
    ELSE The({cso_references(x[1], x[2], views, count, unit + 1) :
                 x \in {<<pipe_sampler_view_reference(
                              h, held[unit], IF unit < count THEN views[unit] ELSE 0),
                          [held EXCEPT ![unit] = IF unit < count THEN views[unit]
                                                 ELSE 0]>>}})

\* The address create_sampler_view gives a view is arbitrary and views are
\* told apart by identity only: they are numbered in the order of the slots
\* that hold them (the texture objects', then each stage's array and
\* binding), views that no slot holds behind them.
OwnerOrder ==
    <<<<StContextA.pipe, "MESA_SHADER_VERTEX">>,
      <<StContextA.pipe, "MESA_SHADER_FRAGMENT">>,
      <<StContextB.pipe, "MESA_SHADER_FRAGMENT">>>>

\* the view id in the k-th slot
SlotAt(ov, sta, cs, k) ==
    LET per == 2 * MaxUnits
        j == k % per
    IN  IF k < per THEN ov[k \div 2][k % 2]
        ELSE LET o == OwnerOrder[k \div per]
             IN  IF o \notin DOMAIN sta THEN 0
                 ELSE IF j < MaxUnits THEN sta[o].sampler_views[j]
                 ELSE cs[o][j - MaxUnits]

RECURSIVE views_met(_, _, _, _, _)
views_met(ov, sta, cs, k, met) ==
    IF k >= 8 * MaxUnits THEN met
    ELSE The({views_met(ov, sta, cs, k + 1, x) :
                 x \in {The({IF v = 0 \/ \E i \in 1 .. Len(met) : met[i] = v
                             THEN met ELSE Append(met, v) :
                                v \in {SlotAt(ov, sta, cs, k)}})}})

RECURSIVE views_loose(_, _, _)
views_loose(h, id, met) ==
    IF id > MaxViews THEN met
    ELSE The({views_loose(h, id + 1, x) :
                 x \in {IF h[id] = NoView \/ \E i \in 1 .. Len(met) : met[i] = id
                        THEN met ELSE Append(met, id)}})

renumbered_in(order, h, ov, sta, cs) ==
    LET to(v) == IF v = 0 THEN 0 ELSE CHOOSE i \in 1 .. Len(order) : order[i] = v
    IN  [heap |-> [k \in ViewIds |-> IF k <= Len(order) THEN h[order[k]] ELSE NoView],
         obj_views |-> [u \in Units |-> [i \in ViewSlots |-> to(ov[u][i])]],
         state |-> [o \in DOMAIN sta |->
                       [sta[o] EXCEPT !.sampler_views =
                                         [u \in Units |-> to(sta[o].sampler_views[u])]]],
         cso |-> [o \in DOMAIN cs |-> [u \in Units |-> to(cs[o][u])]]]

renumbered(h, ov, sta, cs) ==
    The({renumbered_in(order, h, ov, sta, cs) :
            order \in {views_loose(h, 1, views_met(ov, sta, cs, 0, <<>>))}})

\* lines 463-466 and the record of the call: m is the stage after the loop
bind_views(owner, called, m) ==
    The({The({[state |-> after.state, obj_views |-> after.obj_views,
               heap |-> after.heap, cso |-> after.cso,
               refresh |-> [call |-> called, bind |-> TRUE,
                            written |-> m.written, resolved |-> m.resolved,
                            built |-> m.built, copied |-> m.copied]] :
                 after \in {renumbered(bound.heap, m.obj_views,
                                       [state EXCEPT ![owner] =
                                           [sampler_views |-> m.sampler_views,
                                            num_textures |-> m.num_textures]],
                                       [cso EXCEPT ![owner] = bound.views])}}) :
            bound \in {cso_references(m.heap, cso[owner], m.sampler_views,
                                      m.num_textures, 0)}})

\* lines 419-467 for the stage array of owner: the views, the bindings and
\* the record of the call after it
update_textures(owner, prog, failed) ==
    LET s == ContextOf(owner[1])
        old_max == state[owner].num_textures
        called == [owner |-> owner, prog |-> prog, failed |-> failed,
                   old_max |-> old_max]
    IN  IF is_noop(prog.SamplersUsed, old_max)
        THEN [state |-> state, obj_views |-> obj_views, heap |-> heap, cso |-> cso,
              refresh |-> [call |-> called, bind |-> FALSE, written |-> {},
                           resolved |-> {}, built |-> {}, copied |-> {}]]
        ELSE The({bind_views(owner, called, m) :
                     m \in {loop_from([heap |-> heap, obj_views |-> obj_views,
                                       sampler_views |-> state[owner].sampler_views,
                                       num_textures |-> 0, written |-> {},
                                       resolved |-> {}, built |-> {}, copied |-> {},
                                       stop |-> FALSE],
                                      s, prog, 0, failed, old_max)}})

\* refresh of a stage, with the units that cannot be finalized this time
RefreshStage(owner, prog, failed) ==
    /\ \E r \in {update_textures(owner, prog, failed)} :
           /\ state' = r.state
           /\ obj_views' = r.obj_views
           /\ heap' = r.heap
           /\ cso' = r.cso
           /\ refresh' = r.refresh
    /\ UNCHANGED <<Unit, blitVars, texVars, swzVars, atomVars>>

\* glTexBufferRange on the buffer texture
TexBufferRange(range) ==
    /\ range # <<Unit[1].BufferOffset, Unit[1].BufferSize>>
    /\ Unit' = [Unit EXCEPT ![1].BufferOffset = range[1], ![1].BufferSize = range[2]]
    /\ refresh' = NULL
    /\ UNCHANGED <<obj_views, heap, state, cso, blitVars, texVars, swzVars, atomVars>>

\* the stages in owners before their first refresh
StageStart(owners) ==
    /\ Unit = [u \in Units |-> StageTexture(u)]
    /\ obj_views = [u \in Units |-> [i \in ViewSlots |-> 0]]
    /\ heap = [id \in ViewIds |-> NoView]
    /\ state = [o \in owners |-> [sampler_views |-> [u \in Units |-> 0],
                                  num_textures |-> 0]]
    /\ cso = [o \in owners |-> [u \in Units |-> 0]]
    /\ refresh = NULL
    /\ BlitAtRest
    /\ TexAtRest
    /\ SwizzleAtRest
    /\ AtomsAtRest

\* the fragment stage of one context
InitStage == StageStart({<<StContextA.pipe, "MESA_SHADER_FRAGMENT">>})

\* at most one unit fails to finalize in a refresh
NextStage ==
    \/ \E owner \in DOMAIN state, prog \in Programs,
          failed \in {{}} \cup {{u} : u \in Units} :
           RefreshStage(owner, prog, failed)
    \/ \E range \in StageBufferRanges : TexBufferRange(range)

SpecStage == InitStage /\ [][NextStage]_vars

(***************************************************************************)
(* Two stages of one context and a stage of a second context, refreshed    *)
(* in any order by programs of different versions.                         *)
(***************************************************************************)
InitShared == StageStart(Owners)

NextShared ==
    \E owner \in DOMAIN state, prog \in SharedPrograms, failed \in {{}, {0}} :
        RefreshStage(owner, prog, failed)

SpecShared == InitShared /\ [][NextShared]_vars

(***************************************************************************)
(* Properties of the refresh of a stage.                                   *)
(***************************************************************************)
\* the units a program samples
UsedUnits(prog) == {u \in Units : (prog.SamplersUsed \div Pow2(u)) % 2 = 1}

Highest(S) == CHOOSE u \in S : \A k \in S : k <= u

\* update_textures was called and nothing has changed since
Refreshed == refresh # NULL

\* C13: when the program samples no unit and the stage's previous view
\* count is 0, update_textures changes no slot of the view array, leaves the
\* count, and issues no bind call.
C13_NoOpRefresh ==
    [][ ( /\ refresh' # NULL
          /\ refresh'.call.prog.SamplersUsed = 0
          /\ state[refresh'.call.owner].num_textures = 0 )
        => /\ state' = state
           /\ cso' = cso
           /\ obj_views' = obj_views
           /\ heap' = heap
           /\ ~refresh'.bind ]_vars

\* a refresh that samples nothing, after refreshes that left a view behind
C13_Witness ==
    /\ Refreshed
    /\ refresh.call.prog.SamplersUsed = 0
    /\ refresh.call.old_max = 0
    /\ ~refresh.bind
    /\ \E id \in ViewIds : heap[id] # NoView

\* the view of this context that the unit's texture object holds, 0 if none
CachedView(pipe, u) ==
    IF \E i \in ViewSlots : obj_views[u][i] # 0
                             /\ heap[obj_views[u][i]].view.context = pipe
    THEN obj_views[u][CHOOSE i \in ViewSlots :
                          obj_views[u][i] # 0
                          /\ heap[obj_views[u][i]].view.context = pipe]
    ELSE 0

\* C14: when finalization fails for one sampled unit, every other sampled
\* unit is resolved and its view stored in its slot, the failed unit does
\* not raise the view count, and the bind call of the stage is issued with
\* the views below the count.
C14_FailureSkipsOneUnit ==
    ( /\ Refreshed
      /\ refresh.call.failed \subseteq UsedUnits(refresh.call.prog)
      /\ refresh.call.failed # {} )
    => LET o == refresh.call.owner
           others == UsedUnits(refresh.call.prog) \ refresh.call.failed
       IN  /\ \A u \in others :
                  /\ u \in refresh.resolved
                  /\ u \in refresh.written
                  /\ state[o].sampler_views[u] = CachedView(o[1], u)
           /\ \A u \in refresh.call.failed :
                  /\ u \notin refresh.resolved
                  /\ u \notin refresh.written
                  /\ state[o].num_textures # u + 1
           /\ others # {} => state[o].num_textures = Highest(others) + 1
           /\ refresh.bind
           /\ \A u \in Units :
                  cso[o][u] = IF u < state[o].num_textures
                              THEN state[o].sampler_views[u] ELSE 0

\* the first of two sampled units fails, the second is stored and counted
C14_Witness ==
    /\ Refreshed
    /\ refresh.call.failed = {0}
    /\ UsedUnits(refresh.call.prog) = {0, 1}
    /\ refresh.bind
    /\ state[refresh.call.owner].num_textures = 2
    /\ state[refresh.call.owner].sampler_views[1] # 0

\* what the claims say of the last refresh, when it went through the loop
StageCount(used, failed) ==
    IF used \ failed = {} THEN 0 ELSE Highest(used \ failed) + 1

UnusedCleared(o, used, old_max) ==
    LET limit == IF used = {} THEN old_max ELSE Max(old_max, Highest(used) + 1)
    IN  \A u \in Units \ used :
            u < limit => u \in refresh.written /\ state[o].sampler_views[u] = 0

\* C16 as stated: no slot at or above both the previous count and the
\* highest sampled unit is written.
C16_AsStated ==
    (Refreshed /\ refresh.bind) =>
        LET o == refresh.call.owner
            used == UsedUnits(refresh.call.prog)
        IN  /\ state[o].num_textures = StageCount(used, refresh.call.failed)
            /\ UnusedCleared(o, used, refresh.call.old_max)
            /\ \A u \in Units :
                   ( /\ u >= refresh.call.old_max
                     /\ used # {} => u >= Highest(used) )
                   => u \notin refresh.written

\* C16, amended: after a refresh that is not a no-op the view count is the
\* highest sampled unit whose texture was finalized plus one, or 0; every
\* unit not sampled below max(previous count, highest sampled unit + 1) has
\* its slot cleared; no slot at or above the previous count and above the
\* highest sampled unit is written, and the slot of a sampled unit is
\* written exactly when its texture was finalized.
C16_CountAndClearing ==
    (Refreshed /\ refresh.bind) =>
        LET o == refresh.call.owner
            used == UsedUnits(refresh.call.prog)
        IN  /\ state[o].num_textures = StageCount(used, refresh.call.failed)
            /\ UnusedCleared(o, used, refresh.call.old_max)
            /\ \A u \in Units :
                   ( /\ u >= refresh.call.old_max
                     /\ used # {} => u > Highest(used) )
                   => u \notin refresh.written
            /\ \A u \in used : u \in refresh.written <=> u \notin refresh.call.failed

\* the second unit was populated and is not sampled any more: it is cleared
C16_Witness ==
    /\ Refreshed
    /\ refresh.bind
    /\ refresh.call.old_max = 2
    /\ UsedUnits(refresh.call.prog) = {0}
    /\ refresh.call.failed = {}
    /\ 1 \in refresh.written
    /\ state[refresh.call.owner].sampler_views[1] = 0
    /\ state[refresh.call.owner].num_textures = 1

\* C17: every slot of a stage's view array at or above the stage's view
\* count is empty.
C17_AsStated ==
    \A o \in DOMAIN state : \A u \in Units :
        u >= state[o].num_textures => state[o].sampler_views[u] = 0

\* C20: a buffer texture's view is not created when the offset is at or
\* behind the end of the buffer or the range holds no whole element;
\* otherwise it spans first = (offset / block bytes) * block width to
\* last = first + n - 1, n = (min(size - offset, BufferSize) / block bytes) *
\* block width, first <= last.  A sampled unit without a view counts
\* towards the view count, its slot empty.
C20_BufferRange ==
    \A u \in Units :
        ( /\ Refreshed
          /\ u \in refresh.built
          /\ Unit[u].Target = "GL_TEXTURE_BUFFER" )
        => LET o == refresh.call.owner
               obj == Unit[u]
               bytes == 4
               width == 1
               offset == obj.BufferOffset
               avail == obj.pt.width0 - offset
               range == IF obj.BufferSize < 0 \/ obj.BufferSize > avail
                        THEN avail ELSE obj.BufferSize
               n == (range \div bytes) * width
               first == (offset \div bytes) * width
               v == state[o].sampler_views[u]
           IN  /\ state[o].num_textures >= u + 1
               /\ u \in refresh.written
               /\ IF offset >= obj.pt.width0 \/ n = 0
                  THEN v = 0
                  ELSE /\ v # 0
                       /\ u_buf(heap[v].view.u) =
                              [first_element |-> first, last_element |-> first + n - 1]
                       /\ u_buf(heap[v].view.u).first_element
                              <= u_buf(heap[v].view.u).last_element

\* the buffer texture's range starts at the end of the buffer: the unit
\* is counted and its slot is empty
C20_Witness ==
    /\ Refreshed
    /\ 1 \in refresh.built
    /\ Unit[1].BufferOffset >= Unit[1].pt.width0
    /\ state[refresh.call.owner].sampler_views[1] = 0
    /\ state[refresh.call.owner].num_textures = 2

(***************************************************************************)
(* Properties of the views shared between texture objects, stages and      *)
(* contexts.                                                               *)
(***************************************************************************)
\* the slots of texture objects and of stage arrays that hold view id
CacheHolders(id) == {x \in Units \X ViewSlots : obj_views[x[1]][x[2]] = id}

StageHolders(id) ==
    {x \in (DOMAIN state) \X Units : state[x[1]].sampler_views[x[2]] = id}

BindHolders(id) == {x \in (DOMAIN cso) \X Units : cso[x[1]][x[2]] = id}

\* C18: every view that a stage's view array or a texture object holds is
\* live, with a reference count of at least the number of slots holding it;
\* the count is the number of references held (the bind calls' included), so
\* a view is destroyed with its last reference and not before.
C18_HeldViewsAreLive ==
    \A id \in ViewIds :
        LET slots == Cardinality(CacheHolders(id)) + Cardinality(StageHolders(id))
        IN  /\ slots > 0 => heap[id] # NoView
            /\ heap[id].refcount >= slots
            /\ heap[id].refcount = slots + Cardinality(BindHolders(id))
            /\ heap[id] # NoView => heap[id].refcount > 0

\* a stage holds a view that its texture object has released since, while
\* the object holds the view built for another stage's GLSL version
C18_Witness ==
    \E id \in ViewIds, other \in ViewIds :
        /\ StageHolders(id) # {}
        /\ CacheHolders(id) = {}
        /\ heap[id] # NoView
        /\ CacheHolders(other) # {}
        /\ StageHolders(other) # {}
        /\ heap[other].view.context = heap[id].view.context
        /\ heap[other].view.texture = heap[id].view.texture
        /\ heap[other].view.swizzle_r # heap[id].view.swizzle_r

\* C19: a view handed to a stage is owned by the stage's context; a cached
\* view of another context that is valid in content is replaced, in the
\* slot the calling context uses, by a view of the calling context with the
\* same texture, format, swizzle, target and range, and that slot's
\* reference to the old view is dropped.
C19_OwnedByCaller ==
    /\ \A o \in DOMAIN state : \A u \in Units :
           state[o].sampler_views[u] # 0
               => heap[state[o].sampler_views[u]].view.context = o[1]
    /\ Refreshed =>
           \A c \in refresh.copied :
               LET o == refresh.call.owner
                   v == state[o].sampler_views[c.unit]
               IN  /\ c.from.context # o[1]
                   /\ c.to = [c.from EXCEPT !.context = o[1]]
                   /\ v # 0
                   /\ heap[v].view = c.to
                   /\ v = CachedView(o[1], c.unit)
                   /\ \A id \in ViewIds :
                          heap[id].view = c.from =>
                              heap[id].refcount = Cardinality(CacheHolders(id))
                                                  + Cardinality(StageHolders(id))
                                                  + Cardinality(BindHolders(id))

\* the second context's stage got a copy of the first context's view
C19_Witness ==
    /\ Refreshed
    /\ refresh.call.owner[1] = StContextB.pipe
    /\ \E c \in refresh.copied :
           /\ c.from.context = StContextA.pipe
           /\ c.to.context = StContextB.pipe
           /\ c.to.format = c.from.format
           /\ \E id \in ViewIds : heap[id].view = c.from /\ CacheHolders(id) # {}

(***************************************************************************)
(* The tracked-state rules of the six shader stages (lines 470-622) and    *)
(* their dispatch.  A flag word is the set of the flags set in it: | is    *)
(* union, & intersection, 0 the empty set.                                 *)
(***************************************************************************)
ShaderStages ==
    <<"MESA_SHADER_FRAGMENT", "MESA_SHADER_VERTEX", "MESA_SHADER_GEOMETRY",
      "MESA_SHADER_TESS_CTRL", "MESA_SHADER_TESS_EVAL", "MESA_SHADER_COMPUTE">>

\* the stages whose program may or may not be current
OptionalStages ==
    {"MESA_SHADER_GEOMETRY", "MESA_SHADER_TESS_CTRL", "MESA_SHADER_TESS_EVAL",
     "MESA_SHADER_COMPUTE"}

\* the contexts: a driver without or with vertex texture units, any set of
\* optional stages with a current program
GlContexts ==
    [MaxVertexTextureImageUnits : {0, MaxUnits}, Current : SUBSET OptionalStages]

\* the flags of st->dirty.mesa and st->dirty.st that are set and tested
MesaFlags == {"_NEW_TEXTURE", "_NEW_COLOR"}

StFlags ==
    {"ST_NEW_FRAGMENT_PROGRAM", "ST_NEW_VERTEX_PROGRAM", "ST_NEW_GEOMETRY_PROGRAM",
     "ST_NEW_TESSCTRL_PROGRAM", "ST_NEW_TESSEVAL_PROGRAM", "ST_NEW_COMPUTE_PROGRAM",
     "ST_NEW_SAMPLER_VIEWS"}

Clean == [mesa |-> {}, st |-> {}]

\* lines 470-483: the stages update_textures is called for
update_vertex_textures(c) ==
    IF c.MaxVertexTextureImageUnits > 0 THEN <<"MESA_SHADER_VERTEX">> ELSE <<>>

\* lines 486-497
update_fragment_textures(c) == <<"MESA_SHADER_FRAGMENT">>

\* lines 500-513
update_geometry_textures(c) ==
    IF "MESA_SHADER_GEOMETRY" \in c.Current
    THEN <<"MESA_SHADER_GEOMETRY">> ELSE <<>>

\* lines 516-529
update_tessctrl_textures(c) ==
    IF "MESA_SHADER_TESS_CTRL" \in c.Current
    THEN <<"MESA_SHADER_TESS_CTRL">> ELSE <<>>

\* lines 532-545
update_tesseval_textures(c) ==
    IF "MESA_SHADER_TESS_EVAL" \in c.Current
    THEN <<"MESA_SHADER_TESS_EVAL">> ELSE <<>>

\* lines 548-561
update_compute_textures(c) ==
    IF "MESA_SHADER_COMPUTE" \in c.Current
    THEN <<"MESA_SHADER_COMPUTE">> ELSE <<>>

\* lines 565-572
st_update_fragment_texture ==
    [name |-> "st_update_texture",
     dirty |-> [mesa |-> {"_NEW_TEXTURE"},
                st |-> {"ST_NEW_FRAGMENT_PROGRAM"} \cup {"ST_NEW_SAMPLER_VIEWS"}],
     update |-> "update_fragment_textures"]

\* a slip: the vertex rule is given the fragment stage's program flag
st_update_vertex_texture_FragmentFlag ==
    [name |-> "st_update_vertex_texture",
     dirty |-> [mesa |-> {"_NEW_TEXTURE"},
                st |-> {"ST_NEW_FRAGMENT_PROGRAM"} \cup {"ST_NEW_SAMPLER_VIEWS"}],
     update |-> "update_vertex_textures"]

\* lines 575-582
st_update_vertex_texture ==
    [name |-> "st_update_vertex_texture",
     dirty |-> [mesa |-> {"_NEW_TEXTURE"},
                st |-> {"ST_NEW_VERTEX_PROGRAM"} \cup {"ST_NEW_SAMPLER_VIEWS"}],
     update |-> "update_vertex_textures"]

\* lines 585-592
st_update_geometry_texture ==
    [name |-> "st_update_geometry_texture",
     dirty |-> [mesa |-> {"_NEW_TEXTURE"},
                st |-> {"ST_NEW_GEOMETRY_PROGRAM"} \cup {"ST_NEW_SAMPLER_VIEWS"}],
     update |-> "update_geometry_textures"]

\* lines 595-602
st_update_tessctrl_texture ==
    [name |-> "st_update_tessctrl_texture",
     dirty |-> [mesa |-> {"_NEW_TEXTURE"},
                st |-> {"ST_NEW_TESSCTRL_PROGRAM"} \cup {"ST_NEW_SAMPLER_VIEWS"}],
     update |-> "update_tessctrl_textures"]

\* lines 605-612
st_update_tesseval_texture ==
    [name |-> "st_update_tesseval_texture",
     dirty |-> [mesa |-> {"_NEW_TEXTURE"},
                st |-> {"ST_NEW_TESSEVAL_PROGRAM"} \cup {"ST_NEW_SAMPLER_VIEWS"}],
     update |-> "update_tesseval_textures"]

\* lines 615-622
st_update_compute_texture ==
    [name |-> "st_update_compute_texture",
     dirty |-> [mesa |-> {"_NEW_TEXTURE"},
                st |-> {"ST_NEW_COMPUTE_PROGRAM"} \cup {"ST_NEW_SAMPLER_VIEWS"}],
     update |-> "update_compute_textures"]

\* the rules of this file, in the order of their definitions
texture_atoms ==
    <<st_update_fragment_texture, st_update_vertex_texture,
      st_update_geometry_texture, st_update_tessctrl_texture,
      st_update_tesseval_texture, st_update_compute_texture>>

\* the call of a rule's update callback
call_update(update, c) ==
    CASE update = "update_fragment_textures" -> update_fragment_textures(c)
      [] update = "update_vertex_textures" -> update_vertex_textures(c)
      [] update = "update_geometry_textures" -> update_geometry_textures(c)
      [] update = "update_tessctrl_textures" -> update_tessctrl_textures(c)
      [] update = "update_tesseval_textures" -> update_tesseval_textures(c)
      [] update = "update_compute_textures" -> update_compute_textures(c)

\* the trigger predicate of the state tracker: a rule is due when one of its
\* flags is set
check_state(flags, rule_dirty) ==
    \/ flags.mesa \cap rule_dirty.mesa # {}
    \/ flags.st \cap rule_dirty.st # {}

\* the update callbacks of the rules that are due, in the rules' order
RECURSIVE updates_called(_, _)
updates_called(flags, i) ==
    IF i > Len(texture_atoms) THEN <<>>
    ELSE (IF check_state(flags, texture_atoms[i].dirty)
          THEN <<texture_atoms[i].update>> ELSE <<>>)
         \o updates_called(flags, i + 1)

\* the stages the called callbacks run update_textures for
RECURSIVE stages_refreshed(_, _, _)
stages_refreshed(called, c, i) ==
    IF i > Len(called) THEN <<>>
    ELSE call_update(called[i], c) \o stages_refreshed(called, c, i + 1)

\* state is marked as changed
st_invalidate_state(mesa_flags, st_flags) ==
    /\ dirty # NULL
    /\ mesa_flags \cup st_flags # {}
    /\ dirty' = [mesa |-> dirty.mesa \cup mesa_flags, st |-> dirty.st \cup st_flags]
    /\ validated' = NULL
    /\ UNCHANGED <<ctx, blitVars, texVars, swzVars, stageVars>>

\* the validation before a draw or a dispatch: every rule that is due has
\* its update callback called, then the flags are cleared
st_validate_state ==
    /\ dirty # NULL
    /\ dirty # Clean
    /\ \E called \in {updates_called(dirty, 1)} :
           validated' = [dirty |-> dirty, called |-> called,
                         refreshed |-> stages_refreshed(called, ctx, 1)]
    /\ dirty' = Clean
    /\ UNCHANGED <<ctx, blitVars, texVars, swzVars, stageVars>>

InitAtoms ==
    /\ ctx \in GlContexts
    /\ dirty = Clean
    /\ validated = NULL
    /\ BlitAtRest
    /\ TexAtRest
    /\ SwizzleAtRest
    /\ StageAtRest

\* a state change sets one flag at a time
NextAtoms ==
    \/ \E flag \in MesaFlags : st_invalidate_state({flag}, {})
    \/ \E flag \in StFlags : st_invalidate_state({}, {flag})
    \/ st_validate_state

SpecAtoms == InitAtoms /\ [][NextAtoms]_vars

(***************************************************************************)
(* Properties of the tracked-state rules.                                  *)
(***************************************************************************)
Elements(seq) == {seq[i] : i \in 1 .. Len(seq)}

\* the update callback and the program flag of each stage, as the claim
\* names them
StageRule(stage) ==
    CASE stage = "MESA_SHADER_FRAGMENT" ->
             <<"update_fragment_textures", "ST_NEW_FRAGMENT_PROGRAM">>
      [] stage = "MESA_SHADER_VERTEX" ->
             <<"update_vertex_textures", "ST_NEW_VERTEX_PROGRAM">>
      [] stage = "MESA_SHADER_GEOMETRY" ->
             <<"update_geometry_textures", "ST_NEW_GEOMETRY_PROGRAM">>
      [] stage = "MESA_SHADER_TESS_CTRL" ->
             <<"update_tessctrl_textures", "ST_NEW_TESSCTRL_PROGRAM">>
      [] stage = "MESA_SHADER_TESS_EVAL" ->
             <<"update_tesseval_textures", "ST_NEW_TESSEVAL_PROGRAM">>
      [] stage = "MESA_SHADER_COMPUTE" ->
             <<"update_compute_textures", "ST_NEW_COMPUTE_PROGRAM">>

\* C26: in a validation, the texture callback of each of the six stages is
\* called exactly when _NEW_TEXTURE, the stage's own program flag or
\* ST_NEW_SAMPLER_VIEWS was dirty, once; update_textures runs for a stage
\* only then; the program flags of the other stages and other mesa flags do
\* not call it.
C26_TriggeredByOwnMask ==
    validated # NULL =>
        \A stage \in Elements(ShaderStages) :
            LET update == StageRule(stage)[1]
                own_flag == StageRule(stage)[2]
                due == \/ "_NEW_TEXTURE" \in validated.dirty.mesa
                       \/ own_flag \in validated.dirty.st
                       \/ "ST_NEW_SAMPLER_VIEWS" \in validated.dirty.st
            IN  /\ due <=> update \in Elements(validated.called)
                /\ Cardinality({i \in 1 .. Len(validated.called) :
                                   validated.called[i] = update}) <= 1
                /\ stage \in Elements(validated.refreshed) => due
                /\ (due /\ (stage \in OptionalStages => stage \in ctx.Current)
                        /\ (stage = "MESA_SHADER_VERTEX"
                               => ctx.MaxVertexTextureImageUnits > 0))
                   => stage \in Elements(validated.refreshed)

\* a validation that found the program flags of the fragment and the
\* geometry stage and another mesa flag dirty: those two stages were
\* refreshed, the vertex and the compute stage, both able to, were not
C26_Witness ==
    /\ validated # NULL
    /\ validated.dirty = [mesa |-> {"_NEW_COLOR"},
                          st |-> {"ST_NEW_FRAGMENT_PROGRAM", "ST_NEW_GEOMETRY_PROGRAM"}]
    /\ ctx.MaxVertexTextureImageUnits > 0
    /\ ctx.Current = OptionalStages
    /\ validated.called = <<"update_fragment_textures", "update_geometry_textures">>
    /\ validated.refreshed = <<"MESA_SHADER_FRAGMENT", "MESA_SHADER_GEOMETRY">>

====
